---- MODULE Spec2Model ----
(***************************************************************************)
(* Walk-forward backtest of modules/backtest.py (run_backtest and the      *)
(* evaluators it calls), the monitoring detectors of modules/currency.py   *)
(* that evaluate the same conditions, and the monitoring thread of         *)
(* modules/monitoring.py.                                                  *)
(*                                                                         *)
(* Specifications.  Spec is the walk of run_backtest over a series drawn   *)
(* day by day; SpecBacktest is run_backtest as a whole on a fetched        *)
(* series (check, cleaning, walk, return); SpecSignals applies the         *)
(* moving-average and percentage-change evaluators and detectors to a      *)
(* growing history; SpecUptrend applies the long-term-uptrend evaluator    *)
(* and detector to long windows (in these two the rates are plain          *)
(* integers); SpecDrawdown applies _max_drawdown to an equity curve;       *)
(* SpecMonitor is the monitoring thread with start_monitoring,             *)
(* stop_monitoring and the routes that write what the loop reads.          *)
(*                                                                         *)
(* Numbers.  The source computes in floats.  Here every price is an        *)
(* integer number of hundredths (10000 is the price 100.00), percentages   *)
(* of a configuration are whole percents, and Trade.pnl_pct is an integer  *)
(* number of 1/10000 percent, which is what round(pnl_pct, 4) keeps.       *)
(* With candle prices that are whole units the stop and take levels are    *)
(* exact in hundredths, so round(price, 6) changes nothing.  The capital   *)
(* and the equity curve are exact fractions of the currency unit.          *)
(*                                                                         *)
(* Optional values.  A Python value that may be None is a sequence:        *)
(* None is << >> and the value v is << v >>.                               *)
(*                                                                         *)
(* The candle series.  run_backtest reads candle i only in iteration i of  *)
(* the walk (the window is the prefix [0..i]) and once more after the walk *)
(* (the last close), so the model draws candle i when the walk reaches it; *)
(* the number n of cleaned candles is drawn in Init.                       *)
(***************************************************************************)
EXTENDS Integers, Sequences, FiniteSets, TLC

VARIABLES
    entry,                  \* run_backtest parameter: the entry rule
    exit_cfg,               \* run_backtest parameter: the exit rules
    allow_multiple_trades,  \* run_backtest parameter
    n,                      \* len(cleaned_rates)
    cleaned_rates,          \* cleaned_rates[: i + 1], the closes read so far
    cur_candle,             \* cleaned_candles[i], the candle of day i
    i,                      \* loop variable of the walk (0 before the walk)
    pc,                     \* "walk" | "after_walk" | "done"
    in_position, entry_price, entry_date, entry_index,
    trades,                 \* the ledger
    raw_candle,             \* the element of `series` that cur_candle was cleaned from
    opened,                 \* history: the number of positions opened so far
    verdict,                \* history: what the body of the walk evaluated on day i
    series,                 \* what fetch_historical_ohlc_data returned
    cleaned_candles,        \* the candles of `series` that survived cleaning
    result,                 \* the dict run_backtest returned (None while it runs)
    initial_capital,        \* run_backtest parameter, a fraction of the currency unit
    equity,                 \* the equity curve of the summary, a sequence of fractions
    max_dd,                 \* what _max_drawdown returned for `equity` (None before)
    pref,                   \* monitoring: the alert preference of the pair
    data,                   \* monitoring: the rates fetch_historical_data returned
    detection,              \* monitoring: what the detector returned
    monitoring_active,      \* monitoring.py: the global flag
    starting,               \* start_monitoring calls that have read the flag as False
    loops,                  \* the monitoring_loop threads: where each one is
    now,                    \* time.time()
    monitoring_enabled,     \* the setting 'monitoring_enabled'
    enabled,                \* alert_preferences.enabled of each pair
    monitoring_state,       \* monitoring_state.last_alert_time of each pair
    alerts,                 \* of the rows of the alerts table, the latest of each pair
    emails                  \* history: the latest send_email_alert call for each pair

\* the variables of run_backtest's fetch and clean phase and of its return
summary_vars == << initial_capital, equity, max_dd >>

fetch_vars == << series, cleaned_candles, result, summary_vars >>

\* the variables of modules/monitoring.py and of the tables it reads and writes
loop_vars == << monitoring_active, starting, loops, now, monitoring_enabled, enabled,
               monitoring_state, alerts, emails >>

\* the variables of the monitoring detectors of modules/currency.py
monitor_vars == << pref, data, detection, loop_vars >>

vars == << entry, exit_cfg, allow_multiple_trades, n, cleaned_rates, cur_candle,
           i, pc, in_position, entry_price, entry_date, entry_index, trades,
           raw_candle, opened, verdict, series, cleaned_candles, result,
           initial_capital, equity, max_dd, pref, data, detection,
           monitoring_active, starting, loops, now, monitoring_enabled, enabled,
           monitoring_state, alerts, emails >>

(***************************************************************************)
(* Bounds of the model.                                                    *)
(***************************************************************************)
MaxLen == 6

\* the longest window of rates a signal evaluator is applied to
MaxWindow == 5

\* the longest moving-average or detection period configured
MaxPeriod == 3

\* the number of rates at the end of a long window that are drawn freely
MaxTail == 8

\* run_backtest refuses fewer usable candles than this.
MinUsable == 5

\* if not series or len(series) < 5
MinFetched == 5

\* lookback = max(period, long_p + 2, 60)
LookbackFloor == 60

None == << >>
Some(v) == << v >>
IsNone(o) == o = << >>
Val(o) == o[1]

Abs(x) == IF x < 0 THEN -x ELSE x
Max2(a, b) == IF a >= b THEN a ELSE b

\* a / b rounded to the nearest integer, ties to the even one (Python's round); b > 0.
RoundDiv(a, b) ==
    LET q == a \div b
        r == a % b
    IN  IF 2 * r > b THEN q + 1
        ELSE IF 2 * r = b THEN q + (q % 2)
        ELSE q

(***************************************************************************)
(* Helpers on sequences and on fractions << numerator, denominator >>      *)
(* with a positive denominator.                                            *)
(***************************************************************************)
RECURSIVE SumSeq(_)
SumSeq(s) == IF s = << >> THEN 0 ELSE Head(s) + SumSeq(Tail(s))

\* values[-k:] for 1 <= k; the whole sequence when it is shorter than k.
LastK(s, k) == IF Len(s) <= k THEN s ELSE SubSeq(s, Len(s) - k + 1, Len(s))

\* values[:-1]
ButLast(s) == IF s = << >> THEN s ELSE SubSeq(s, 1, Len(s) - 1)

FracLT(a, b) == a[1] * b[2] < b[1] * a[2]
FracLE(a, b) == a[1] * b[2] <= b[1] * a[2]

\* Python's "x or default" on an optional number: None and 0 give the default.
OrDefault(o, d) == IF IsNone(o) \/ Val(o) = 0 THEN d ELSE Val(o)
\* Python's "(s or default).strip()" on a string without surrounding blanks.
StrOrDefault(s, d) == IF s = "" THEN d ELSE s

(***************************************************************************)
(* _sma: the mean of the last `period` values as the fraction              *)
(* << sum, period >>, or None.                                             *)
(***************************************************************************)
_sma(values, period) ==
    IF period <= 0 THEN None
    ELSE IF Len(values) < period THEN None
    ELSE Some(<< SumSeq(LastK(values, period)), period >>)

\* all(recent[k] >= recent[k - 1] * 0.998 for k in range(1, len(recent)))
ConsistencyOk(recent) ==
    \A k \in 2..Len(recent) : recent[k] * 1000 >= recent[k - 1] * 998

(***************************************************************************)
(* _eval_entry_signal, by entry type.  window_candle is window_candles[-1] *)
(* as an optional candle (None where the caller passes no candles).        *)
(* The types modelled are price_level, moving_average_crossover,           *)
(* percentage_change and long_term_uptrend; the alternative key names of   *)
(* the source (alert_type, ma_short_period, custom_period, ...) are not    *)
(* modelled.                                                               *)
(***************************************************************************)
EntryPriceLevel(e, window_rates, window_candle) ==
    LET trigger == StrOrDefault(e.trigger_type, "crosses_above")
        swap == ~IsNone(e.price_high) /\ ~IsNone(e.price_low)
                /\ Val(e.price_low) > Val(e.price_high)
        high == IF swap THEN e.price_low ELSE e.price_high
        low == IF swap THEN e.price_high ELSE e.price_low
        prev == window_rates[Len(window_rates) - 1]
        cur == window_rates[Len(window_rates)]
        cur_high == IF IsNone(window_candle) THEN None ELSE Some(Val(window_candle).high)
        cur_low == IF IsNone(window_candle) THEN None ELSE Some(Val(window_candle).low)
    IN  IF Len(window_rates) < 2 THEN FALSE
        ELSE IF trigger = "crosses_above" /\ ~IsNone(high)
        THEN prev < Val(high)
             /\ ((~IsNone(cur_high) /\ Val(cur_high) >= Val(high)) \/ cur >= Val(high))
        ELSE IF trigger = "crosses_below" /\ ~IsNone(low)
        THEN prev > Val(low)
             /\ ((~IsNone(cur_low) /\ Val(cur_low) <= Val(low)) \/ cur <= Val(low))
        ELSE IF trigger = "between" /\ ~IsNone(high) /\ ~IsNone(low)
        THEN Val(low) <= cur /\ cur <= Val(high)
        ELSE FALSE

\* the crossover test without yesterday's averages
EntryMovingAverage_TodayOnly(e, window_rates) ==
    LET short_p == OrDefault(e.short_ma_period, 10)
        long_p == OrDefault(e.long_ma_period, 50)
        signal == StrOrDefault(e.signal_type, "golden_cross")
        short_today == _sma(window_rates, short_p)
        long_today == _sma(window_rates, long_p)
    IN  IF long_p <= short_p THEN FALSE
        ELSE IF Len(window_rates) < long_p + 1 THEN FALSE
        ELSE IF signal = "golden_cross" THEN FracLT(Val(long_today), Val(short_today))
        ELSE IF signal = "death_cross" THEN FracLT(Val(short_today), Val(long_today))
        ELSE FALSE

EntryMovingAverage(e, window_rates) ==
    LET short_p == OrDefault(e.short_ma_period, 10)
        long_p == OrDefault(e.long_ma_period, 50)
        signal == StrOrDefault(e.signal_type, "golden_cross")
        short_today == _sma(window_rates, short_p)
        short_yday == _sma(ButLast(window_rates), short_p)
        long_today == _sma(window_rates, long_p)
        long_yday == _sma(ButLast(window_rates), long_p)
    IN  IF long_p <= short_p THEN FALSE
        ELSE IF Len(window_rates) < long_p + 1 THEN FALSE
        ELSE IF None \in {short_today, short_yday, long_today, long_yday} THEN FALSE
        ELSE IF signal = "golden_cross"
        THEN FracLE(Val(short_yday), Val(long_yday)) /\ FracLT(Val(long_today), Val(short_today))
        ELSE IF signal = "death_cross"
        THEN FracLE(Val(long_yday), Val(short_yday)) /\ FracLT(Val(short_today), Val(long_today))
        ELSE FALSE

\* detection_period is positive in every configuration of the model.
EntryPercentageChange(e, window_rates) ==
    LET period == OrDefault(e.detection_period, 30)
        threshold == OrDefault(e.change_threshold, 2)
        enable_consistency == e.enable_trend_consistency
        segment == LastK(window_rates, period)
        old == segment[1]
        new == segment[Len(segment)]
        \* pct < threshold, with pct = ((new - old) / old) * 100
        below == IF old > 0 THEN (new - old) * 100 < threshold * old
                 ELSE (new - old) * 100 > threshold * old
        recent == LastK(segment, 5)
    IN  IF Len(window_rates) < Max2(2, period) THEN FALSE
        ELSE IF old = 0 THEN FALSE
        ELSE IF below THEN FALSE
        ELSE IF ~enable_consistency THEN TRUE
        ELSE ConsistencyOk(recent)

\* a / b >= c / d for a, c >= 0 and b, d > 0, without forming the products
\* (which overflow): compare the integer parts, then the inverted remainders
RECURSIVE FracGE(_, _, _, _)
FracGE(a, b, c, d) ==
    IF a \div b # c \div d THEN a \div b > c \div d
    ELSE IF c % d = 0 THEN TRUE
    ELSE IF a % b = 0 THEN FALSE
    ELSE FracGE(d, c % d, b, a % b)

\* sum of k * values[k + 1] over the indices k = 0 .. Len(values) - 1
RECURSIVE SumIndexed(_)
SumIndexed(values) ==
    IF values = << >> THEN 0
    ELSE (Len(values) - 1) * values[Len(values)] + SumIndexed(ButLast(values))

RECURSIVE SumSquares(_)
SumSquares(values) == IF values = << >> THEN 0 ELSE Head(values) * Head(values) + SumSquares(Tail(values))

(***************************************************************************)
(* _linear_regression_slope_r2: None (for "(None, None)"), or the three    *)
(* sums of the least-squares line, each multiplied by n to stay integral:  *)
(* slope = ssxy / ssxx, and r2 = 1 - ss_res / ss_tot, where                *)
(* ss_res = ss_tot - ssxy^2 / ssxx for the least-squares line, so that     *)
(* r2 = ssxy^2 / (ssxx * ss_tot).                                          *)
(***************************************************************************)
_linear_regression_slope_r2(values) ==
    IF Len(values) < 2 THEN None
    ELSE LET m == Len(values)
             sum_x == (m * (m - 1)) \div 2
             sum_xx == ((m - 1) * m * (2 * m - 1)) \div 6
             sum_y == SumSeq(values)
         IN  Some([ssxy |-> m * SumIndexed(values) - sum_x * sum_y,
                   ssxx |-> m * sum_xx - sum_x * sum_x,
                   ss_tot |-> m * SumSquares(values) - sum_y * sum_y])

\* slope is not None and r2 is not None and slope > 0 and r2 >= 0.25
\* (with ss_tot = 0 the slope is 0)
RegressionOk_SlopeOnly(reg) == ~IsNone(reg) /\ Val(reg).ssxy > 0

RegressionOk(reg) ==
    /\ ~IsNone(reg)
    /\ Val(reg).ssxy > 0
    /\ FracGE(2 * Val(reg).ssxy, Val(reg).ssxx, Val(reg).ss_tot, 2 * Val(reg).ssxy)

\* pct >= threshold, with pct = ((new - old) / old) * 100 and old # 0
PctAtLeast(old, new, threshold) ==
    IF old > 0 THEN (new - old) * 100 >= threshold * old
    ELSE (new - old) * 100 <= threshold * old

EntryLongTermUptrend(e, window_rates) ==
    LET period == OrDefault(e.detection_period, 365)
        threshold == OrDefault(e.change_threshold, 5)
        enable_consistency == e.enable_trend_consistency
        short_p == OrDefault(e.short_ma_period, 50)
        long_p == OrDefault(e.long_ma_period, 200)
        lookback == Max2(Max2(period, long_p + 2), LookbackFloor)
        segment == LastK(window_rates, period)
        old == segment[1]
        new == segment[Len(segment)]
        recent == LastK(segment, 5)
        pct_ok == PctAtLeast(old, new, threshold)
                  /\ (IF enable_consistency THEN ConsistencyOk(recent) ELSE TRUE)
        short_today == _sma(window_rates, short_p)
        long_today == _sma(window_rates, long_p)
        long_yday == _sma(ButLast(window_rates), long_p)
        ma_ok == /\ ~IsNone(short_today) /\ ~IsNone(long_today) /\ ~IsNone(long_yday)
                 /\ FracLT(Val(long_today), Val(short_today))
                 /\ FracLE(Val(long_yday), Val(long_today))
        reg_ok == RegressionOk(_linear_regression_slope_r2(segment))
    IN  IF Len(window_rates) < lookback THEN FALSE
        ELSE IF Len(segment) < 2 THEN FALSE
        ELSE IF old = 0 THEN FALSE
        ELSE pct_ok /\ ma_ok /\ reg_ok

\* a type that is missing or not handled evaluated as a percentage change
_eval_entry_signal_DefaultsToTrend(e, window_rates, window_candle) ==
    IF e.type = "price_level" THEN EntryPriceLevel(e, window_rates, window_candle)
    ELSE IF e.type \in {"moving_average", "moving_average_crossover"}
    THEN EntryMovingAverage(e, window_rates)
    ELSE IF e.type = "long_term_uptrend" THEN EntryLongTermUptrend(e, window_rates)
    ELSE EntryPercentageChange(e, window_rates)

_eval_entry_signal(e, window_rates, window_candle) ==
    IF e.type = "" THEN FALSE
    ELSE IF e.type = "price_level" THEN EntryPriceLevel(e, window_rates, window_candle)
    ELSE IF e.type \in {"moving_average", "moving_average_crossover"}
    THEN EntryMovingAverage(e, window_rates)
    ELSE IF e.type \in {"percentage_change", "trend"}
    THEN EntryPercentageChange(e, window_rates)
    ELSE IF e.type = "long_term_uptrend" THEN EntryLongTermUptrend(e, window_rates)
    ELSE FALSE

(***************************************************************************)
(* _eval_exit.  cfg is exit_cfg_local: the exit rules with the candle of   *)
(* the day under the private key (field cur_candle, optional).  The result *)
(* is the tuple (should_exit, reason, fill_price) as a record.             *)
(***************************************************************************)
ExitResult(should_exit, reason, fill_price) ==
    [should_exit |-> should_exit, reason |-> reason, fill_price |-> fill_price]

StopLevel_NoAbs(cfg, price) ==
    IF price # 0 /\ ~IsNone(cfg.stop_loss_pct)
    THEN Some((price * (100 - Val(cfg.stop_loss_pct))) \div 100)
    ELSE None

StopLevel_MissingIsZero(cfg, price) ==
    IF price # 0
    THEN Some((price * (100 - Abs(OrDefault(cfg.stop_loss_pct, 0)))) \div 100)
    ELSE None

\* entry_price * (1.0 - abs(stop_loss_pct) / 100.0), when entry_price is not 0
StopLevel(cfg, price) ==
    IF price # 0 /\ ~IsNone(cfg.stop_loss_pct)
    THEN Some((price * (100 - Abs(Val(cfg.stop_loss_pct)))) \div 100)
    ELSE None

\* entry_price * (1.0 + abs(take_profit_pct) / 100.0), when entry_price is not 0
TakeLevel(cfg, price) ==
    IF price # 0 /\ ~IsNone(cfg.take_profit_pct)
    THEN Some((price * (100 + Abs(Val(cfg.take_profit_pct)))) \div 100)
    ELSE None

LowForChecks_CloseOnly(cfg, cur_price) == cur_price

\* cur_low if cur_low is not None else cur_price
LowForChecks(cfg, cur_price) ==
    LET cur_low == IF IsNone(cfg.cur_candle) THEN None ELSE Some(Val(cfg.cur_candle).low)
    IN  IF ~IsNone(cur_low) THEN Val(cur_low) ELSE cur_price

\* cur_high if cur_high is not None else cur_price
HighForChecks(cfg, cur_price) ==
    LET cur_high == IF IsNone(cfg.cur_candle) THEN None ELSE Some(Val(cfg.cur_candle).high)
    IN  IF ~IsNone(cur_high) THEN Val(cur_high) ELSE cur_price

TimeExitDue_Strict(cfg, index, cur_index) ==
    LET max_holding_days == cfg.max_holding_days
    IN  /\ ~IsNone(max_holding_days) /\ Val(max_holding_days) > 0
        /\ (cur_index - index) > Val(max_holding_days)

\* the entry day counted as a day held
TimeExitDue_FromEntryDay(cfg, index, cur_index) ==
    LET max_holding_days == cfg.max_holding_days
    IN  /\ ~IsNone(max_holding_days) /\ Val(max_holding_days) > 0
        /\ (cur_index - index) + 1 >= Val(max_holding_days)

\* the time-based exit: max_holding_days is set, positive and reached
TimeExitDue(cfg, index, cur_index) ==
    LET max_holding_days == cfg.max_holding_days
    IN  /\ ~IsNone(max_holding_days) /\ Val(max_holding_days) > 0
        /\ (cur_index - index) >= Val(max_holding_days)

\* the optional exit signal, evaluated on the closes alone
SignalExit(cfg, window_rates) ==
    LET exit_signal == cfg.signal
    IN  /\ ~IsNone(exit_signal) /\ Val(exit_signal).type # ""
        /\ _eval_entry_signal(Val(exit_signal), window_rates, None)

_eval_exit_TakeFirst(cfg, price, index, cur_index, window_rates) ==
    LET cur_price == window_rates[Len(window_rates)]
        stop_level == StopLevel(cfg, price)
        take_level == TakeLevel(cfg, price)
        hit_stop == ~IsNone(stop_level) /\ LowForChecks(cfg, cur_price) <= Val(stop_level)
        hit_take == ~IsNone(take_level) /\ HighForChecks(cfg, cur_price) >= Val(take_level)
    IN  IF hit_stop /\ hit_take
        THEN ExitResult(TRUE, "stop_loss_and_take_profit_same_day", take_level)
        ELSE IF hit_stop THEN ExitResult(TRUE, "stop_loss", stop_level)
        ELSE IF hit_take THEN ExitResult(TRUE, "take_profit", take_level)
        ELSE IF TimeExitDue(cfg, index, cur_index) THEN ExitResult(TRUE, "time_exit", None)
        ELSE IF SignalExit(cfg, window_rates) THEN ExitResult(TRUE, "signal_exit", None)
        ELSE ExitResult(FALSE, "", None)

_eval_exit_TimeFirst(cfg, price, index, cur_index, window_rates) ==
    LET cur_price == window_rates[Len(window_rates)]
        stop_level == StopLevel(cfg, price)
        take_level == TakeLevel(cfg, price)
        hit_stop == ~IsNone(stop_level) /\ LowForChecks(cfg, cur_price) <= Val(stop_level)
        hit_take == ~IsNone(take_level) /\ HighForChecks(cfg, cur_price) >= Val(take_level)
    IN  IF TimeExitDue(cfg, index, cur_index) THEN ExitResult(TRUE, "time_exit", None)
        ELSE IF hit_stop /\ hit_take
        THEN ExitResult(TRUE, "stop_loss_and_take_profit_same_day", stop_level)
        ELSE IF hit_stop THEN ExitResult(TRUE, "stop_loss", stop_level)
        ELSE IF hit_take THEN ExitResult(TRUE, "take_profit", take_level)
        ELSE IF SignalExit(cfg, window_rates) THEN ExitResult(TRUE, "signal_exit", None)
        ELSE ExitResult(FALSE, "", None)

_eval_exit(cfg, price, index, cur_index, window_rates) ==
    LET cur_price == window_rates[Len(window_rates)]
        stop_level == StopLevel(cfg, price)
        take_level == TakeLevel(cfg, price)
        hit_stop == ~IsNone(stop_level) /\ LowForChecks(cfg, cur_price) <= Val(stop_level)
        hit_take == ~IsNone(take_level) /\ HighForChecks(cfg, cur_price) >= Val(take_level)
    IN  IF hit_stop /\ hit_take
        THEN ExitResult(TRUE, "stop_loss_and_take_profit_same_day", stop_level)
        ELSE IF hit_stop THEN ExitResult(TRUE, "stop_loss", stop_level)
        ELSE IF hit_take THEN ExitResult(TRUE, "take_profit", take_level)
        ELSE IF TimeExitDue(cfg, index, cur_index) THEN ExitResult(TRUE, "time_exit", None)
        ELSE IF SignalExit(cfg, window_rates) THEN ExitResult(TRUE, "signal_exit", None)
        ELSE ExitResult(FALSE, "", None)

(***************************************************************************)
(* The Trade appended to the ledger.  pnl_pct is                           *)
(* round(((exit_price - entry_price) / entry_price) * 100, 4) in units of  *)
(* 1/10000 percent, and 0 when entry_price is 0.                           *)
(***************************************************************************)
PnlPct(price, exit_price) ==
    IF price = 0 THEN 0
    ELSE LET a == (exit_price - price) * 10000
             q == a \div Abs(price)
             r == a % Abs(price)
             v == q * 100 + RoundDiv(r * 100, Abs(price))
         IN  IF price > 0 THEN v ELSE -v

\* the holding period counted from the day after the entry
Trade_HoldingShort(e_date, e_price, x_date, x_price, holding_days, exit_reason) ==
    [entry_date |-> e_date, entry_price |-> e_price,
     exit_date |-> x_date, exit_price |-> x_price,
     pnl_pct |-> PnlPct(e_price, x_price),
     holding_days |-> holding_days - 1, exit_reason |-> exit_reason]

Trade(e_date, e_price, x_date, x_price, holding_days, exit_reason) ==
    [entry_date |-> e_date, entry_price |-> e_price,
     exit_date |-> x_date, exit_price |-> x_price,
     pnl_pct |-> PnlPct(e_price, x_price),
     holding_days |-> holding_days, exit_reason |-> exit_reason]

(***************************************************************************)
(* The inputs the model draws.                                             *)
(***************************************************************************)
\* an entry dict: its type, then the keys of price_level (trigger, high, low)
\* and of percentage_change (period, threshold, consistency)
EntryConfig(type, trigger, high, low, period, threshold, consistency) ==
    [type |-> type, trigger_type |-> trigger,
     price_high |-> high, price_low |-> low,
     short_ma_period |-> None, long_ma_period |-> None, signal_type |-> "",
     detection_period |-> period, change_threshold |-> threshold,
     enable_trend_consistency |-> consistency]

\* entry rules: the close crosses above 100.00; a gain of 5% over 2 days
EntryConfigs ==
    { EntryConfig("price_level", "crosses_above", Some(10000), None, None, None, TRUE),
      EntryConfig("percentage_change", "", None, None, Some(2), Some(5), FALSE) }

\* exit signal: the close crosses below 95.00
ExitSignals ==
    { EntryConfig("price_level", "crosses_below", None, Some(9500), None, None, TRUE) }

StopLossPcts == {None, Some(5), Some(-10)}
TakeProfitPcts == {None, Some(5), Some(-5)}
MaxHoldingDays == {None, Some(0), Some(2)}

ExitConfigs ==
    [stop_loss_pct : StopLossPcts, take_profit_pct : TakeProfitPcts,
     max_holding_days : MaxHoldingDays,
     signal : {None} \cup {Some(x) : x \in ExitSignals},
     cur_candle : {None}]

Closes == {9500, 10500}

\* an element of `series` that survives cleaning: a date, a numeric close,
\* and an intrabar high and low that may be missing
RawCandles(k) ==
    [date : {100 + k}, close : Closes,
     high : {None, Some(11000)}, low : {None, Some(9000)}]

\* the entry of cleaned_candles made from d: missing high and low fall back to the close
CleanCandle(d) ==
    [date |-> d.date,
     high |-> IF IsNone(d.high) THEN d.close ELSE Val(d.high),
     low |-> IF IsNone(d.low) THEN d.close ELSE Val(d.low),
     close |-> d.close]

NoVerdict == [kind |-> "none", should |-> FALSE, reason |-> "", fill_price |-> None]

\* the walk taken on its own: the series is drawn day by day, not fetched up front
\* initial_capital: float = 10000.0
DefaultCapital == << 10000, 1 >>

NotFetched ==
    /\ series = << >> /\ cleaned_candles = << >> /\ result = None
    /\ initial_capital = DefaultCapital /\ equity = << >> /\ max_dd = None

\* no monitoring thread has been started
NotLooping ==
    /\ monitoring_active = FALSE /\ starting = 0 /\ loops = << >> /\ now = 0
    /\ monitoring_enabled = "false" /\ enabled = << >> /\ monitoring_state = << >>
    /\ alerts = << >> /\ emails = << >>

\* run_backtest calls no monitoring detector
NotMonitoring == pref = None /\ data = << >> /\ detection = None

\* series[i] as the walk reads it: cleaned_candles[i] of a fetched series, or
\* any candle that survives cleaning when the series is drawn day by day
DayCandles(k) == IF cleaned_candles = << >> THEN RawCandles(k) ELSE { cleaned_candles[k + 1] }

Init ==
    /\ entry \in EntryConfigs
    /\ exit_cfg \in ExitConfigs
    /\ allow_multiple_trades \in BOOLEAN
    /\ n \in MinUsable..MaxLen
    /\ \E d \in RawCandles(0) :
          /\ raw_candle = d
          /\ cur_candle = CleanCandle(d)
          /\ cleaned_rates = << d.close >>
    /\ i = 0
    /\ pc = "walk"
    /\ in_position = FALSE
    /\ entry_price = 0
    /\ entry_date = -1
    /\ entry_index = -1
    /\ trades = << >>
    /\ opened = 0
    /\ verdict = NoVerdict
    /\ NotFetched
    /\ NotMonitoring
    /\ NotLooping

\* the walk leaves the loop after the last index, or by the break
NextPc(k, stop) == IF stop \/ k >= n - 1 THEN "after_walk" ELSE "walk"

\* entry_price = window_rates[-1]
EntryFill_PreviousClose(window_rates) == window_rates[Len(window_rates) - 1]

EntryFill(window_rates) == window_rates[Len(window_rates)]

\* if not allow_multiple_trades: break
BreakAfterClose_Never == FALSE

BreakAfterClose == ~allow_multiple_trades

(***************************************************************************)
(* One iteration of the walk on a day without an open position (the        *)
(* "if not in_position" branch); flat is that test.                        *)
(***************************************************************************)
EntryStep(flat) ==
    /\ pc = "walk" /\ i + 1 <= n - 1 /\ flat
    /\ \E d \in DayCandles(i + 1) :
          LET c == CleanCandle(d)
              window_rates == Append(cleaned_rates, c.close)
              triggered == _eval_entry_signal(entry, window_rates, Some(c))
          IN  /\ raw_candle' = d
              /\ cur_candle' = c
              /\ cleaned_rates' = window_rates
              /\ i' = i + 1
              /\ verdict' = [kind |-> "entry", should |-> triggered,
                             reason |-> "", fill_price |-> None]
              /\ IF triggered
                 THEN /\ in_position' = TRUE
                      /\ entry_price' = EntryFill(window_rates)
                      /\ entry_date' = c.date
                      /\ entry_index' = i + 1
                      /\ opened' = opened + 1
                 ELSE UNCHANGED << in_position, entry_price, entry_date, entry_index, opened >>
              /\ pc' = NextPc(i + 1, FALSE)
    /\ UNCHANGED << entry, exit_cfg, allow_multiple_trades, n, trades,
                    fetch_vars, monitor_vars >>

EntryDay_EveryDay == EntryStep(TRUE)

EntryDay == EntryStep(~in_position)

(***************************************************************************)
(* One iteration of the walk on a day with an open position (the "else"    *)
(* branch).                                                                *)
(***************************************************************************)
ExitStep(in_place) ==
    /\ pc = "walk" /\ i + 1 <= n - 1 /\ in_position
    /\ \E d \in DayCandles(i + 1) :
          LET c == CleanCandle(d)
              window_rates == Append(cleaned_rates, c.close)
              exit_cfg_local == [exit_cfg EXCEPT !.cur_candle = Some(c)]
              res == _eval_exit(exit_cfg_local, entry_price, entry_index, i + 1, window_rates)
              exit_price == IF ~IsNone(res.fill_price) THEN Val(res.fill_price) ELSE c.close
              reason == IF res.reason = "" THEN "exit" ELSE res.reason
          IN  /\ raw_candle' = d
              /\ cur_candle' = c
              /\ cleaned_rates' = window_rates
              /\ i' = i + 1
              /\ verdict' = [kind |-> "exit", should |-> res.should_exit,
                             reason |-> res.reason, fill_price |-> res.fill_price]
              /\ exit_cfg' = IF in_place THEN exit_cfg_local ELSE exit_cfg
              /\ IF res.should_exit
                 THEN /\ trades' = Append(trades,
                             Trade(entry_date, entry_price, c.date, exit_price,
                                   (i + 1) - entry_index, reason))
                      /\ in_position' = FALSE
                      /\ pc' = NextPc(i + 1, BreakAfterClose)
                 ELSE /\ UNCHANGED << trades, in_position >>
                      /\ pc' = NextPc(i + 1, FALSE)
    /\ UNCHANGED << entry, allow_multiple_trades, n,
                    entry_price, entry_date, entry_index, opened,
                    fetch_vars, monitor_vars >>

\* the current candle written into the caller's dict
ExitDay_InPlace == ExitStep(TRUE)

\* exit_cfg_local = dict(exit_cfg): the current candle goes into a copy
ExitDay == ExitStep(FALSE)

(***************************************************************************)
(* After the walk: a position that is still open is closed at the last     *)
(* close.  A position can be open here only when the walk ran to the last  *)
(* index, so the closes read are the whole of cleaned_rates.               *)
(***************************************************************************)
AfterWalkStep(still_open) ==
    /\ pc = "after_walk"
    /\ trades' = IF still_open
                 THEN Append(trades,
                         Trade(entry_date, entry_price, cur_candle.date,
                               cleaned_rates[Len(cleaned_rates)],
                               (n - 1) - entry_index, "end_of_data"))
                 ELSE trades
    /\ pc' = "done"
    /\ UNCHANGED << entry, exit_cfg, allow_multiple_trades, n, cleaned_rates, cur_candle,
                    raw_candle, i, in_position, entry_price, entry_date, entry_index,
                    opened, verdict, fetch_vars, monitor_vars >>

AfterWalk_DropOpen == AfterWalkStep(FALSE)

AfterWalk == AfterWalkStep(in_position)

Next == EntryDay \/ ExitDay \/ AfterWalk

Spec == Init /\ [][Next]_vars

(***************************************************************************)
(* run_backtest as a whole: the series is fetched up front, checked,       *)
(* cleaned, walked, and the result dict is returned.                       *)
(***************************************************************************)
\* the kinds of element fetch_historical_ohlc_data may hand back
CandleKinds == {"close", "rate_only", "no_date", "no_close"}

\* the element of the given kind at position k of the series: a candle with a
\* close of 95.00, one whose only price is a 'rate' of 105.00, one without a
\* date, one without any price
FetchedCandle(kind, k) ==
    [date |-> IF kind = "no_date" THEN None ELSE Some(100 + k),
     close |-> IF kind \in {"close", "no_date"} THEN Some(9500) ELSE None,
     rate |-> IF kind = "rate_only" THEN Some(10500) ELSE None,
     high |-> None, low |-> None]

FetchedSeries ==
    UNION { { [k \in 1..len |-> FetchedCandle(kinds[k], k - 1)] : kinds \in [1..len -> CandleKinds] } : len \in 0..MaxLen }

\* c = _safe_float(d.get('close')); if c is None: c = _safe_float(d.get('rate'))
CloseOf_CloseOnly(d) == d.close

CloseOf(d) == IF ~IsNone(d.close) THEN d.close ELSE d.rate

\* the two `continue` of the cleaning loop
Survives(d) == ~IsNone(d.date) /\ ~IsNone(CloseOf(d))

\* the cleaning loop: the candles that survive, in order, with their close
\* resolved (the high and low stay optional until the walk reads the candle)
RECURSIVE CleanSeries(_)
CleanSeries(s) ==
    IF s = << >> THEN << >>
    ELSE LET d == Head(s)
             rest == CleanSeries(Tail(s))
         IN  IF Survives(d)
             THEN << [date |-> Val(d.date), close |-> Val(CloseOf(d)),
                      high |-> d.high, low |-> d.low] >> \o rest
             ELSE rest

\* the dict returned on a failure: 'trades': [], 'summary': {}
Failure(error) == Some([success |-> FALSE, error |-> error, trades |-> << >>, summary |-> None])

(***************************************************************************)
(* The summary.  Amounts of money and percentages are exact fractions      *)
(* << numerator, denominator >> in lowest terms with a positive            *)
(* denominator; the products are formed after cancelling common factors.   *)
(***************************************************************************)
RECURSIVE Gcd(_, _)
Gcd(a, b) == IF b = 0 THEN a ELSE Gcd(b, a % b)

Frac(a, b) == LET g == Gcd(Abs(a), b) IN << a \div g, b \div g >>

FracMul(f, g) ==
    LET g1 == Gcd(Abs(f[1]), g[2])
        g2 == Gcd(Abs(g[1]), f[2])
    IN  << (f[1] \div g1) * (g[1] \div g2), (f[2] \div g2) * (g[2] \div g1) >>

FracSub(f, g) ==
    LET c == Gcd(f[2], g[2])
    IN  Frac(f[1] * (g[2] \div c) - g[1] * (f[2] \div c), (f[2] \div c) * g[2])

\* f / g for g > 0
FracDiv(f, g) == FracMul(f, << g[2], g[1] >>)

\* f > g for f, g >= 0
FracGT(f, g) == ~FracGE(g[1], g[2], f[1], f[2])

\* round(f, 2) for f >= 0, in hundredths
Round2(f) == (f[1] \div f[2]) * 100 + RoundDiv((f[1] % f[2]) * 100, f[2])

\* equity *= (1.0 + (t.pnl_pct / 100.0)) for each trade, starting from the capital
RECURSIVE _equity_curve_from_trades(_, _)
_equity_curve_from_trades(ledger, capital) ==
    IF ledger = << >> THEN << capital >>
    ELSE LET curve == _equity_curve_from_trades(ButLast(ledger), capital)
             t == ledger[Len(ledger)]
         IN  Append(curve, FracMul(curve[Len(curve)], Frac(1000000 + t.pnl_pct, 1000000)))

\* the loop of _max_drawdown over curve[k ..], entered with the peak and the
\* largest drawdown so far; a drawdown is measured from a positive peak only
RECURSIVE DrawdownFrom(_, _, _, _)
DrawdownFrom(curve, k, peak, dd_so_far) ==
    IF k > Len(curve) THEN dd_so_far
    ELSE LET v == curve[k]
             new_peak == IF FracGT(v, peak) THEN v ELSE peak
             dd == FracDiv(FracSub(new_peak, v), new_peak)
             new_dd == IF new_peak[1] > 0 /\ FracGT(dd, dd_so_far) THEN dd ELSE dd_so_far
         IN  DrawdownFrom(curve, k + 1, new_peak, new_dd)

\* the value is in percent: max_dd * 100.0
_max_drawdown_FromStart(curve) ==
    IF curve = << >> THEN << 0, 1 >>
    ELSE LET drop(k) == IF FracGT(curve[1], curve[k])
                        THEN FracDiv(FracSub(curve[1], curve[k]), curve[1])
                        ELSE << 0, 1 >>
             worst == CHOOSE k \in 1..Len(curve) :
                          \A j \in 1..Len(curve) : ~FracGT(drop(j), drop(k))
         IN  FracMul(drop(worst), << 100, 1 >>)

_max_drawdown(curve) ==
    IF curve = << >> THEN << 0, 1 >>
    ELSE FracMul(DrawdownFrom(curve, 1, curve[1], << 0, 1 >>), << 100, 1 >>)

\* (equity[-1] - initial_capital) / initial_capital * 100 if initial_capital else 0.0
TotalReturnPct(curve, capital) ==
    IF capital[1] = 0 THEN << 0, 1 >>
    ELSE FracMul(FracDiv(FracSub(curve[Len(curve)], capital), capital), << 100, 1 >>)

\* the dict returned after the walk; the rounded figures are in hundredths
\* (win_rate_pct and avg_trade_pnl_pct are left out)
Success(ledger, entry_cfg, exit_config, capital, curve, drawdown) ==
    Some([success |-> TRUE, error |-> "", trades |-> ledger,
          entry |-> entry_cfg, exit |-> exit_config, initial_capital |-> capital,
          summary |-> Some([num_trades |-> Len(ledger),
                            total_return_pct |-> Round2(TotalReturnPct(curve, capital)),
                            final_equity |-> Round2(curve[Len(curve)]),
                            max_drawdown_pct |-> Round2(drawdown)])])

\* what run_backtest is called with in the whole-run specification
BacktestExitConfigs ==
    { x \in ExitConfigs : /\ x.stop_loss_pct = Some(5) /\ IsNone(x.take_profit_pct)
                          /\ IsNone(x.max_holding_days) /\ IsNone(x.signal) }

\* 10000 by default; a quarter of a unit; no capital at all
InitialCapitals == { DefaultCapital, << 1, 4 >>, << 0, 1 >> }

\* alert types the monitoring loop knows and the backtest evaluator does not,
\* and the missing type
UnhandledTypes == { "", "historical_high", "volatility" }

\* entries of an unhandled type that carry the keys of the handled rules
UnhandledEntries ==
    { EntryConfig(t, "crosses_above", Some(10000), None, Some(2), Some(5), FALSE) :
          t \in UnhandledTypes }

InitBacktest ==
    /\ entry \in EntryConfigs \cup UnhandledEntries
    /\ exit_cfg \in BacktestExitConfigs
    /\ allow_multiple_trades \in BOOLEAN
    /\ series \in FetchedSeries
    /\ cleaned_candles = << >>
    /\ result = None
    /\ initial_capital \in InitialCapitals
    /\ equity = << >>
    /\ max_dd = None
    /\ n = 0
    /\ cleaned_rates = << >>
    /\ cur_candle = None
    /\ raw_candle = None
    /\ i = 0
    /\ pc = "fetch"
    /\ in_position = FALSE
    /\ entry_price = 0
    /\ entry_date = -1
    /\ entry_index = -1
    /\ trades = << >>
    /\ opened = 0
    /\ verdict = NoVerdict
    /\ NotMonitoring
    /\ NotLooping

walk_vars == << n, cleaned_rates, cur_candle, raw_candle, i, in_position, entry_price,
                entry_date, entry_index, trades, opened, verdict >>

\* if not series or len(series) < 5: return the failure
FetchCheck ==
    /\ pc = "fetch"
    /\ IF Len(series) < MinFetched
       THEN result' = Failure("Not enough historical data") /\ pc' = "returned"
       ELSE result' = result /\ pc' = "clean"
    /\ UNCHANGED << entry, exit_cfg, allow_multiple_trades, series, cleaned_candles,
                    summary_vars, walk_vars, monitor_vars >>

\* the cleaning loop, the test of len(cleaned_rates), and the walk's initial state
Clean ==
    /\ pc = "clean"
    /\ LET cc == CleanSeries(series)
       IN  /\ cleaned_candles' = cc
           /\ IF Len(cc) < MinUsable
              THEN /\ result' = Failure("Not enough usable data points")
                   /\ pc' = "returned"
                   /\ UNCHANGED << n, cleaned_rates, cur_candle, raw_candle >>
              ELSE /\ result' = result
                   /\ pc' = "walk"
                   /\ n' = Len(cc)
                   /\ cleaned_rates' = << cc[1].close >>
                   /\ cur_candle' = CleanCandle(cc[1])
                   /\ raw_candle' = cc[1]
    /\ UNCHANGED << entry, exit_cfg, allow_multiple_trades, series, i, in_position,
                    entry_price, entry_date, entry_index, trades, opened, verdict,
                    summary_vars, monitor_vars >>

\* the summary and return {'success': True, ...}
Return ==
    /\ pc = "done"
    /\ LET curve == _equity_curve_from_trades(trades, initial_capital)
           drawdown == _max_drawdown(curve)
       IN  /\ equity' = curve
           /\ max_dd' = Some(drawdown)
           /\ result' = Success(trades, entry, exit_cfg, initial_capital, curve, drawdown)
    /\ pc' = "returned"
    /\ UNCHANGED << entry, exit_cfg, allow_multiple_trades, series, cleaned_candles,
                    initial_capital, walk_vars, monitor_vars >>

NextBacktest == FetchCheck \/ Clean \/ EntryDay \/ ExitDay \/ AfterWalk \/ Return

SpecBacktest == InitBacktest /\ [][NextBacktest]_vars

(***************************************************************************)
(* The monitoring detectors of modules/currency.py.  p is the alert        *)
(* preference of the pair (get_alert_preference), fetched is the list of   *)
(* rates fetch_historical_data returned, oldest first.  A detector returns *)
(* None or its alert_info dict; of the dict the flag and the rates are     *)
(* kept.                                                                   *)
(***************************************************************************)
\* fetch_historical_data(pair, days): the daily rates from `days` days ago to
\* today, at most days + 1 of them
fetch_historical_data(history, days) == LastK(history, days + 1)

detect_moving_average_crossover(p, fetched, short_period, long_period, signal_type) ==
    IF ~p.enabled THEN None
    ELSE IF fetched = << >> \/ Len(fetched) < long_period THEN None
    ELSE LET short_ma_today == << SumSeq(LastK(fetched, short_period)), short_period >>
             short_ma_yesterday ==
                 IF Len(fetched) > short_period
                 THEN << SumSeq(LastK(ButLast(fetched), short_period)), short_period >>
                 ELSE short_ma_today
             long_ma_today == << SumSeq(LastK(fetched, long_period)), long_period >>
             long_ma_yesterday ==
                 IF Len(fetched) > long_period
                 THEN << SumSeq(LastK(ButLast(fetched), long_period)), long_period >>
                 ELSE long_ma_today
         IN  Some([is_crossover |->
                      IF signal_type = "golden_cross"
                      THEN FracLE(short_ma_yesterday, long_ma_yesterday)
                           /\ FracLT(long_ma_today, short_ma_today)
                      ELSE IF signal_type = "death_cross"
                      THEN FracLE(long_ma_yesterday, short_ma_yesterday)
                           /\ FracLT(short_ma_today, long_ma_today)
                      ELSE FALSE,
                   current_rate |-> fetched[Len(fetched)]])

\* detect_trend: the settings detection_period and trend_threshold are at
\* their defaults, 30 and 2.0
detect_trend(p, fetched) ==
    IF ~p.enabled THEN None
    ELSE IF Len(fetched) < 2 THEN None
    ELSE LET trend_threshold == OrDefault(p.custom_threshold, 2)
             oldest_rate == fetched[1]
             newest_rate == fetched[Len(fetched)]
             recent_data == LastK(fetched, 5)
             is_consistent == ConsistencyOk(recent_data)
             \* percent_change >= trend_threshold
             reached == IF oldest_rate > 0
                        THEN (newest_rate - oldest_rate) * 100 >= trend_threshold * oldest_rate
                        ELSE (newest_rate - oldest_rate) * 100 <= trend_threshold * oldest_rate
         IN  IF oldest_rate = 0 THEN None
             ELSE Some([is_trending |-> reached /\ is_consistent,
                        old_rate |-> oldest_rate, new_rate |-> newest_rate])

RECURSIVE MaxOf(_)
MaxOf(s) == IF Len(s) = 1 THEN s[1] ELSE Max2(Head(s), MaxOf(Tail(s)))

RECURSIVE MinOf(_)
MinOf(s) == IF Len(s) = 1 THEN s[1] ELSE (IF Head(s) <= MinOf(Tail(s)) THEN Head(s) ELSE MinOf(Tail(s)))

\* detect_historical_high.  The dict is built with
\* (current_rate - min_rate) / (max_rate - min_rate): on a series whose
\* maximum equals its minimum the division raises ZeroDivisionError, which the
\* handler turns into None.
detect_historical_high(p, fetched) ==
    IF ~p.enabled THEN None
    ELSE IF Len(fetched) < 2 THEN None
    ELSE LET current_rate == fetched[Len(fetched)]
             max_rate == MaxOf(fetched)
             min_rate == MinOf(fetched)
         IN  IF max_rate = min_rate THEN None
             ELSE Some([is_high |-> Abs(current_rate - max_rate) * 1000 < max_rate,
                        current_rate |-> current_rate,
                        max_rate |-> max_rate, min_rate |-> min_rate])

\* detect_historical_low, the same with the minimum
detect_historical_low(p, fetched) ==
    IF ~p.enabled THEN None
    ELSE IF Len(fetched) < 2 THEN None
    ELSE LET current_rate == fetched[Len(fetched)]
             max_rate == MaxOf(fetched)
             min_rate == MinOf(fetched)
         IN  IF max_rate = min_rate THEN None
             ELSE Some([is_low |-> Abs(current_rate - min_rate) * 1000 < min_rate,
                        current_rate |-> current_rate,
                        max_rate |-> max_rate, min_rate |-> min_rate])

\* detect_long_term_uptrend: the settings detection_period and
\* trend_threshold are at their defaults, 30 and 2.0
detect_long_term_uptrend(p, fetched) ==
    LET detection_period == OrDefault(p.custom_period, 30)
        change_threshold == OrDefault(p.custom_threshold, 2)
        ma_short == IF p.ma_short_period = 0 THEN 50 ELSE p.ma_short_period
        ma_long == IF p.ma_long_period = 0 THEN 200 ELSE p.ma_long_period
        rates_all == fetched
        window == LastK(rates_all, detection_period)
        oldest_rate == window[1]
        newest_rate == window[Len(window)]
        recent_window == LastK(window, 5)
        consistency_ok == ConsistencyOk(recent_window)
        pct_ok == PctAtLeast(oldest_rate, newest_rate, change_threshold)
                  /\ (IF p.enable_trend_consistency THEN consistency_ok ELSE TRUE)
        short_ma_today == << SumSeq(LastK(rates_all, ma_short)), ma_short >>
        long_ma_today == << SumSeq(LastK(rates_all, ma_long)), ma_long >>
        long_ma_yesterday == << SumSeq(LastK(ButLast(rates_all), ma_long)), ma_long >>
        ma_ok == IF Len(rates_all) >= Max2(ma_long, ma_short) + 1 /\ ma_short >= 2
                    /\ ma_long > ma_short
                 THEN FracLT(long_ma_today, short_ma_today)
                      /\ FracLE(long_ma_yesterday, long_ma_today)
                 ELSE FALSE
        reg_ok == RegressionOk(_linear_regression_slope_r2(window))
    IN  IF ~p.enabled THEN None
        ELSE IF Len(rates_all) < 2 THEN None
        ELSE IF Len(window) < 2 THEN None
        ELSE IF oldest_rate = 0 THEN None
        ELSE Some([is_trending |-> pct_ok /\ ma_ok /\ reg_ok,
                   old_rate |-> oldest_rate, new_rate |-> newest_rate,
                   pct_ok |-> pct_ok, ma_ok |-> ma_ok, reg_ok |-> reg_ok])

(***************************************************************************)
(* The signal evaluators on their own: a condition is configured once, as  *)
(* a backtest entry rule and as the alert preference of a monitored pair;  *)
(* each day a rate is appended to the history, the backtest evaluator is   *)
(* applied to the window that ends on that day, and then the monitoring    *)
(* loop runs its check of the pair on what the provider returns.           *)
(***************************************************************************)
SignalRates == {100, 101, 150}

Periods == 1..MaxPeriod

\* thresholds in percent
Thresholds == {Some(0), Some(1), Some(20)}

\* a configured condition in the keys of a backtest entry dict
MovingAverageEntries ==
    { [EntryConfig("moving_average_crossover", "", None, None, None, None, TRUE)
         EXCEPT !.short_ma_period = Some(sp), !.long_ma_period = Some(lp), !.signal_type = sg] :
      sp \in Periods, lp \in Periods, sg \in {"golden_cross", "death_cross"} }

PercentageChangeEntries ==
    { EntryConfig("percentage_change", "", None, None, Some(dp), th, cons) :
      dp \in Periods, th \in Thresholds, cons \in BOOLEAN }

\* conditions that only the monitoring loop evaluates
HistoricalEntries ==
    { EntryConfig(t, "", None, None, None, None, TRUE) : t \in {"historical_high", "historical_low"} }

SignalEntries == MovingAverageEntries \cup PercentageChangeEntries \cup HistoricalEntries

\* the same condition as the row of alert_preferences that the preferences
\* route stores (ma periods default to 10 and 50)
PrefOf(e) ==
    [enabled |-> TRUE,
     alert_type |-> IF e.type = "moving_average_crossover" THEN "moving_average" ELSE e.type,
     custom_period |-> e.detection_period,
     custom_threshold |-> e.change_threshold,
     enable_trend_consistency |-> e.enable_trend_consistency,
     ma_short_period |-> OrDefault(e.short_ma_period, 10),
     ma_long_period |-> OrDefault(e.long_ma_period, 50),
     signal_type |-> e.signal_type,
     lookback_years |-> 5]

\* the number of days the detector of the pair's alert type asks the provider for
Lookback(p) ==
    IF p.alert_type = "moving_average" THEN p.ma_long_period + 1
    ELSE IF p.alert_type \in {"historical_high", "historical_low"} THEN p.lookback_years * 365
    ELSE OrDefault(p.custom_period, 30)

\* monitoring_loop's routing by alert type
MonitorDetect(p, fetched) ==
    IF p.alert_type = "percentage_change" THEN detect_trend(p, fetched)
    ELSE IF p.alert_type = "moving_average"
    THEN detect_moving_average_crossover(p, fetched, p.ma_short_period, p.ma_long_period,
                                         StrOrDefault(p.signal_type, "golden_cross"))
    ELSE IF p.alert_type = "historical_high" THEN detect_historical_high(p, fetched)
    ELSE IF p.alert_type = "historical_low" THEN detect_historical_low(p, fetched)
    ELSE None

InitSignals ==
    /\ entry \in SignalEntries
    /\ pref = PrefOf(entry)
    /\ cleaned_rates = << >>
    /\ data = << >>
    /\ detection = None
    /\ verdict = NoVerdict
    /\ i = -1
    /\ pc = "eval"
    /\ exit_cfg = None /\ allow_multiple_trades = TRUE /\ n = 0
    /\ cur_candle = None /\ raw_candle = None
    /\ in_position = FALSE /\ entry_price = 0 /\ entry_date = -1 /\ entry_index = -1
    /\ trades = << >> /\ opened = 0
    /\ NotFetched
    /\ NotLooping

\* the variables the signal evaluators do not touch
position_vars == << exit_cfg, allow_multiple_trades, n, cur_candle, raw_candle, in_position,
                    entry_price, entry_date, entry_index, trades, opened, fetch_vars,
                    loop_vars >>

\* _eval_entry_signal(entry, window_rates, window_candles, None) on the window
\* that ends on the new day
EvalSignal ==
    /\ pc = "eval" /\ Len(cleaned_rates) < MaxWindow
    /\ \E r \in SignalRates :
          LET window_rates == Append(cleaned_rates, r)
          IN  /\ cleaned_rates' = window_rates
              /\ verdict' = [kind |-> "signal",
                             should |-> _eval_entry_signal(entry, window_rates, None),
                             reason |-> "", fill_price |-> None]
    /\ i' = i + 1
    /\ pc' = "detect"
    /\ UNCHANGED << entry, pref, data, detection, position_vars >>

\* one pass of monitoring_loop over the pair
Detect ==
    /\ pc = "detect"
    /\ data' = fetch_historical_data(cleaned_rates, Lookback(pref))
    /\ detection' = MonitorDetect(pref, data')
    /\ pc' = "eval"
    /\ UNCHANGED << entry, pref, cleaned_rates, verdict, i, position_vars >>

NextSignals == EvalSignal \/ Detect

SpecSignals == InitSignals /\ [][NextSignals]_vars

(***************************************************************************)
(* The long-term uptrend on its own: the condition is configured as a      *)
(* backtest entry rule and as an alert preference, a window of about       *)
(* LookbackFloor rates is given, and each evaluator is applied to it once. *)
(* The evaluators read no rate older than the last `period` ones, so a     *)
(* window is a flat stretch followed by MaxTail rates drawn freely.        *)
(***************************************************************************)
UptrendRates == {100, 150}

\* period 8 looks at the drawn rates only; period 61 is the whole lookback
UptrendPeriods == {MaxTail, LookbackFloor + 1}

\* (short_ma_period, long_ma_period)
UptrendAverages == { << 1, 2 >>, << 2, 3 >>, << 3, 2 >>, << 2, 2 >> }

UptrendEntries ==
    { [EntryConfig("long_term_uptrend", "", None, None, Some(dp), th, cons)
         EXCEPT !.short_ma_period = Some(ma[1]), !.long_ma_period = Some(ma[2])] :
      dp \in UptrendPeriods, th \in {Some(1), Some(20)}, cons \in BOOLEAN, ma \in UptrendAverages }

WindowLengths == (LookbackFloor - 1)..(LookbackFloor + 1)

UptrendWindows ==
    { [k \in 1..(len - MaxTail) |-> 100] \o tail :
      len \in WindowLengths, tail \in [1..MaxTail -> UptrendRates] }

InitUptrend ==
    /\ entry \in UptrendEntries
    /\ pref = PrefOf(entry)
    /\ cleaned_rates \in UptrendWindows
    /\ data = << >>
    /\ detection = None
    /\ verdict = NoVerdict
    /\ i = 0
    /\ pc = "eval"
    /\ exit_cfg = None /\ allow_multiple_trades = TRUE /\ n = 0
    /\ cur_candle = None /\ raw_candle = None
    /\ in_position = FALSE /\ entry_price = 0 /\ entry_date = -1 /\ entry_index = -1
    /\ trades = << >> /\ opened = 0
    /\ NotFetched
    /\ NotLooping

\* _eval_entry_signal(entry, window_rates, window_candles, None) on the window
EvalWindow ==
    /\ pc = "eval"
    /\ verdict' = [kind |-> "signal",
                   should |-> _eval_entry_signal(entry, cleaned_rates, None),
                   reason |-> "", fill_price |-> None]
    /\ pc' = "detect"
    /\ UNCHANGED << entry, pref, cleaned_rates, data, detection, i, position_vars >>

\* lookback = max(int(detection_period), int(ma_long) + 2, 60)
UptrendLookback(p) ==
    Max2(Max2(OrDefault(p.custom_period, 30),
              (IF p.ma_long_period = 0 THEN 200 ELSE p.ma_long_period) + 2), LookbackFloor)

\* detect_long_term_uptrend(pair, currency_pairs) on what the provider returns
DetectUptrend ==
    /\ pc = "detect"
    /\ data' = fetch_historical_data(cleaned_rates, UptrendLookback(pref))
    /\ detection' = detect_long_term_uptrend(pref, data')
    /\ pc' = "done"
    /\ UNCHANGED << entry, pref, cleaned_rates, verdict, i, position_vars >>

NextUptrend == EvalWindow \/ DetectUptrend

SpecUptrend == InitUptrend /\ [][NextUptrend]_vars

(***************************************************************************)
(* _max_drawdown taken on its own (specification SpecDrawdown): an equity  *)
(* curve of at most MaxCurve points is drawn and the function applied.     *)
(***************************************************************************)
MaxCurve == 4

EquityValues == { 0, 9000, 9900, 10000, 11000 }

EquityCurves == UNION { [1..k -> { << v, 1 >> : v \in EquityValues }] : k \in 1..MaxCurve }

InitDrawdown ==
    /\ equity \in EquityCurves
    /\ max_dd = None
    /\ pc = "summary"
    /\ series = << >> /\ cleaned_candles = << >> /\ result = None
    /\ initial_capital = equity[1]
    /\ entry = None /\ exit_cfg = None /\ allow_multiple_trades = TRUE /\ n = 0
    /\ cleaned_rates = << >> /\ cur_candle = None /\ raw_candle = None
    /\ i = 0 /\ verdict = NoVerdict
    /\ in_position = FALSE /\ entry_price = 0 /\ entry_date = -1 /\ entry_index = -1
    /\ trades = << >> /\ opened = 0
    /\ NotMonitoring
    /\ NotLooping

\* max_dd = _max_drawdown(equity)
Drawdown ==
    /\ pc = "summary"
    /\ max_dd' = Some(_max_drawdown(equity))
    /\ pc' = "returned"
    /\ UNCHANGED << entry, exit_cfg, allow_multiple_trades, series, cleaned_candles, result,
                    initial_capital, equity, walk_vars, monitor_vars >>

NextDrawdown == Drawdown

SpecDrawdown == InitDrawdown /\ [][NextDrawdown]_vars

(***************************************************************************)
(* The monitoring thread of modules/monitoring.py (specification           *)
(* SpecMonitor).  start_monitoring and stop_monitoring are called from any *)
(* thread; monitoring_loop runs in the threads start_monitoring creates.   *)
(* A thread is at "while" (just started or in time.sleep, and about to     *)
(* test monitoring_active), at "pair" (about to read the preference and    *)
(* the cooldown of currency_pairs[k]) or at "detect" (about to run the     *)
(* detector of that pair and act on it).  The detectors read the market,   *)
(* so their verdict is any Boolean, and so is the outcome of               *)
(* send_email_alert.  check_interval is a setting of any length, so a      *)
(* sleeping thread wakes at any time; the clock advances in steps of a     *)
(* third of the cooldown.  The routes that write the settings, the         *)
(* preferences and the tables are the environment.                         *)
(***************************************************************************)
MaxTicks == 4

\* the threads that may run monitoring_loop, and the calls of start_monitoring in flight
Threads == { "first", "second" }
MaxCalls == Cardinality(Threads)

\* if last_alert and time.time() - last_alert < 3600
Cooldown == 3600

ClockStep == Cooldown \div 3

CurrencyPairs == << "EUR/USD", "GOLD/USD" >>

Pairs == { CurrencyPairs[k] : k \in 1..Len(CurrencyPairs) }

\* set_setting('monitoring_enabled', 'true'), set_setting('monitoring_enabled', 'false')
MonitoringEnabledValues == { "true", "false" }

NoLoop == [pc |-> "none", k |-> 0]

InitMonitor ==
    /\ monitoring_active = FALSE
    /\ starting = 0
    /\ loops = [t \in Threads |-> NoLoop]
    /\ now = ClockStep
    /\ monitoring_enabled = "false"
    /\ enabled \in [Pairs -> BOOLEAN]
    /\ monitoring_state = [p \in Pairs |-> None]
    /\ alerts = [p \in Pairs |-> None]
    /\ emails = [p \in Pairs |-> None]
    /\ entry = None /\ exit_cfg = None /\ allow_multiple_trades = TRUE /\ n = 0
    /\ cleaned_rates = << >> /\ cur_candle = None /\ raw_candle = None
    /\ i = 0 /\ pc = "monitor" /\ verdict = NoVerdict
    /\ in_position = FALSE /\ entry_price = 0 /\ entry_date = -1 /\ entry_index = -1
    /\ trades = << >> /\ opened = 0
    /\ NotFetched
    /\ pref = None /\ data = << >> /\ detection = None

\* the variables monitoring does not touch
backtest_vars == << entry, exit_cfg, allow_multiple_trades, n, cleaned_rates, cur_candle,
                    i, pc, in_position, entry_price, entry_date, entry_index, trades,
                    raw_candle, opened, verdict, fetch_vars, pref, data, detection >>

\* start_monitoring: if not monitoring_active
StartTest ==
    /\ ~monitoring_active /\ starting < MaxCalls
    /\ starting' = starting + 1
    /\ UNCHANGED << monitoring_active, loops, now, monitoring_enabled, enabled,
                    monitoring_state, alerts, emails, backtest_vars >>

\* start_monitoring: monitoring_active = True; monitoring_thread.start()
StartSpawn ==
    /\ starting > 0
    /\ \E t \in Threads :
          /\ loops[t] = NoLoop /\ (t = "second" => loops["first"] # NoLoop)
          /\ loops' = [loops EXCEPT ![t] = [pc |-> "while", k |-> 0]]
    /\ monitoring_active' = TRUE
    /\ starting' = starting - 1
    /\ UNCHANGED << now, monitoring_enabled, enabled, monitoring_state, alerts, emails,
                    backtest_vars >>

\* stop_monitoring: monitoring_active = False
stop_monitoring ==
    /\ monitoring_active
    /\ monitoring_active' = FALSE
    /\ UNCHANGED << starting, loops, now, monitoring_enabled, enabled, monitoring_state,
                    alerts, emails, backtest_vars >>

\* while monitoring_active: if get_setting('monitoring_enabled', 'false') == 'true'
\* (on entering the loop, and when time.sleep returns)
LoopTest(t) ==
    /\ loops[t].pc = "while"
    /\ ~monitoring_active \/ monitoring_enabled = "true"
    /\ loops' = [loops EXCEPT ![t] =
                    IF ~monitoring_active THEN NoLoop
                    ELSE IF monitoring_enabled = "true" THEN [pc |-> "pair", k |-> 1]
                    ELSE [pc |-> "while", k |-> 0]]
    /\ UNCHANGED << monitoring_active, starting, now, monitoring_enabled, enabled,
                    monitoring_state, alerts, emails, backtest_vars >>

\* the end of the body of "for pair in currency_pairs", then the sleep
NextPair(k) == IF k < Len(CurrencyPairs) THEN [pc |-> "pair", k |-> k + 1]
               ELSE [pc |-> "while", k |-> 0]

\* if last_alert and time.time() - last_alert < 3600
CoolingDown(last_alert, time) ==
    ~IsNone(last_alert) /\ Val(last_alert) # 0 /\ time - Val(last_alert) < Cooldown

PairRead_EnabledIgnored(t) ==
    /\ loops[t].pc = "pair"
    /\ LET pair == CurrencyPairs[loops[t].k]
       IN  loops' = [loops EXCEPT ![t] =
                        IF CoolingDown(monitoring_state[pair], now)
                        THEN NextPair(loops[t].k)
                        ELSE [pc |-> "detect", k |-> loops[t].k]]
    /\ UNCHANGED << monitoring_active, starting, now, monitoring_enabled, enabled,
                    monitoring_state, alerts, emails, backtest_vars >>

\* pref = get_alert_preference(pair), the test of pref['enabled'], the cooldown
PairRead(t) ==
    /\ loops[t].pc = "pair"
    /\ LET pair == CurrencyPairs[loops[t].k]
       IN  loops' = [loops EXCEPT ![t] =
                        IF ~enabled[pair] THEN NextPair(loops[t].k)
                        ELSE IF CoolingDown(monitoring_state[pair], now)
                             THEN NextPair(loops[t].k)
                        ELSE [pc |-> "detect", k |-> loops[t].k]]
    /\ UNCHANGED << monitoring_active, starting, now, monitoring_enabled, enabled,
                    monitoring_state, alerts, emails, backtest_vars >>

\* the detector of the pair (None when it reads the preference as disabled),
\* then send_email_alert, save_alert and set_monitoring_state when it triggered
PairAct(t) ==
    /\ loops[t].pc = "detect"
    /\ LET pair == CurrencyPairs[loops[t].k]
       IN  \E is_triggered \in BOOLEAN, email_sent \in BOOLEAN :
              IF is_triggered /\ enabled[pair]
              THEN /\ emails' = [emails EXCEPT ![pair] =
                                      Some([time |-> now, email_sent |-> email_sent])]
                   /\ alerts' = [alerts EXCEPT ![pair] =
                                      Some([time |-> now, email_sent |-> email_sent])]
                   /\ monitoring_state' = [monitoring_state EXCEPT ![pair] = Some(now)]
              ELSE /\ email_sent
                   /\ UNCHANGED << emails, alerts, monitoring_state >>
    /\ loops' = [loops EXCEPT ![t] = NextPair(loops[t].k)]
    /\ UNCHANGED << monitoring_active, starting, now, monitoring_enabled, enabled,
                    backtest_vars >>

Tick ==
    /\ now < MaxTicks * ClockStep
    /\ now' = now + ClockStep
    /\ UNCHANGED << monitoring_active, starting, loops, monitoring_enabled, enabled,
                    monitoring_state, alerts, emails, backtest_vars >>

\* api_start_monitoring, api_stop_monitoring, api_settings: set_setting
SetMonitoringEnabled ==
    /\ \E v \in MonitoringEnabledValues \ { monitoring_enabled } : monitoring_enabled' = v
    /\ UNCHANGED << monitoring_active, starting, loops, now, enabled, monitoring_state,
                    alerts, emails, backtest_vars >>

\* api_alert_preferences: the preference of a pair is saved with another 'enabled'
SetEnabled ==
    /\ \E p \in Pairs : enabled' = [enabled EXCEPT ![p] = ~enabled[p]]
    /\ UNCHANGED << monitoring_active, starting, loops, now, monitoring_enabled,
                    monitoring_state, alerts, emails, backtest_vars >>

\* clear_alert_history(); clear_monitoring_state()
api_clear_alerts ==
    /\ \E p \in Pairs : alerts[p] # None \/ monitoring_state[p] # None
    /\ alerts' = [p \in Pairs |-> None]
    /\ monitoring_state' = [p \in Pairs |-> None]
    /\ UNCHANGED << monitoring_active, starting, loops, now, monitoring_enabled, enabled,
                    emails, backtest_vars >>

NextMonitor ==
    \/ StartTest \/ StartSpawn \/ stop_monitoring
    \/ \E t \in Threads : LoopTest(t) \/ PairRead(t) \/ PairAct(t)
    \/ Tick \/ SetMonitoringEnabled \/ SetEnabled \/ api_clear_alerts

SpecMonitor == InitMonitor /\ [][NextMonitor]_vars

(***************************************************************************)
(* Properties of the walk.                                                 *)
(***************************************************************************)
OpenPositions == opened - Len(trades)

\* C1: at most one position is open on every simulated day: the positions
\* opened and not yet closed number 1 while in_position holds and 0
\* otherwise, a position is opened only after every trade of the ledger has
\* closed, and the trades of the ledger never overlap (a later trade's entry
\* date is never before an earlier trade's exit date).  The entry rule is
\* evaluated only on a day that began without a position: after an entry
\* evaluation a position is open only if that evaluation opened it.
C1_SinglePosition ==
    /\ (verdict.kind = "entry" /\ in_position) => (verdict.should /\ entry_index = i)
    /\ pc # "done" => OpenPositions = (IF in_position THEN 1 ELSE 0)
    /\ OpenPositions \in {0, 1}
    /\ (in_position /\ pc # "done") =>
          \A k \in 1..Len(trades) : trades[k].exit_date <= entry_date
    /\ \A a, b \in 1..Len(trades) :
          a < b => trades[a].exit_date <= trades[b].entry_date

\* a second position is open while the ledger already holds a closed trade
C1_Witness ==
    /\ in_position /\ pc = "walk" /\ Len(trades) >= 1
    /\ verdict.kind = "exit" /\ ~verdict.should

\* C2: every opened position yields exactly one Trade: while the walk runs
\* the ledger holds one trade per position opened and closed; once the run
\* is done it holds one trade per position opened; and an "end_of_data"
\* trade is the last of the ledger, made after the walk from a position
\* still open, with the final close as exit_price and the last date as
\* exit_date.
C2_OneTradePerPosition ==
    /\ pc # "done" => Len(trades) = opened - (IF in_position THEN 1 ELSE 0)
    /\ pc = "done" => Len(trades) = opened
    /\ \A k \in 1..Len(trades) :
          trades[k].exit_reason = "end_of_data" =>
             /\ pc = "done" /\ k = Len(trades) /\ in_position
             /\ Len(cleaned_rates) = n
             /\ trades[k].exit_price = cleaned_rates[n]
             /\ trades[k].exit_date = raw_candle.date
             /\ raw_candle.date = 100 + (n - 1)
             /\ trades[k].entry_date = entry_date
    /\ (pc = "done" /\ in_position) =>
          (trades # << >> /\ trades[Len(trades)].exit_reason = "end_of_data")

\* a run that closed one position during the walk and force-closed another
C2_Witness ==
    /\ pc = "done" /\ Len(trades) = 2
    /\ trades[1].exit_reason # "end_of_data"
    /\ trades[2].exit_reason = "end_of_data"

(***************************************************************************)
(* The day an exit evaluation looked at, read from the candle as fetched:  *)
(* the intrabar low (high) when the candle carries one, else its close.    *)
(* These hold of the state after an iteration with verdict.kind = "exit";  *)
(* entry_price and entry_index still describe the position evaluated.      *)
(***************************************************************************)
EffLow == IF IsNone(raw_candle.low) THEN raw_candle.close ELSE Val(raw_candle.low)
EffHigh == IF IsNone(raw_candle.high) THEN raw_candle.close ELSE Val(raw_candle.high)

StopBreached ==
    /\ ~IsNone(exit_cfg.stop_loss_pct)
    /\ EffLow * 100 <= entry_price * (100 - Abs(Val(exit_cfg.stop_loss_pct)))

TakeBreached ==
    /\ ~IsNone(exit_cfg.take_profit_pct)
    /\ EffHigh * 100 >= entry_price * (100 + Abs(Val(exit_cfg.take_profit_pct)))

HeldDays == i - entry_index

TimeDue ==
    /\ ~IsNone(exit_cfg.max_holding_days)
    /\ Val(exit_cfg.max_holding_days) > 0
    /\ HeldDays >= Val(exit_cfg.max_holding_days)

SignalTriggered ==
    /\ ~IsNone(exit_cfg.signal)
    /\ _eval_entry_signal(Val(exit_cfg.signal), cleaned_rates, None)

LastTrade == trades[Len(trades)]

SameDay == "stop_loss_and_take_profit_same_day"

\* C3 as stated: a day that breaches both levels exits with reason
\* "stop_loss" at stop_level, and the Trade carries exit_reason "stop_loss".
C3_Original ==
    (verdict.kind = "exit" /\ StopBreached /\ TakeBreached) =>
       /\ verdict.should /\ verdict.reason = "stop_loss"
       /\ trades # << >> /\ LastTrade.exit_reason = "stop_loss"

\* C3 (amended): a day that breaches both levels exits with reason
\* "stop_loss_and_take_profit_same_day" and fill price stop_level, and the
\* Trade appended to the ledger carries that reason and stop_level as its
\* exit_price.
C3_SameDayStopFirst ==
    (verdict.kind = "exit" /\ StopBreached /\ TakeBreached) =>
       /\ verdict.should /\ verdict.reason = SameDay
       /\ ~IsNone(verdict.fill_price)
       /\ Val(verdict.fill_price) * 100
             = entry_price * (100 - Abs(Val(exit_cfg.stop_loss_pct)))
       /\ trades # << >>
       /\ LastTrade.exit_reason = SameDay
       /\ LastTrade.exit_price = Val(verdict.fill_price)
       /\ LastTrade.exit_date = raw_candle.date
       /\ LastTrade.entry_price = entry_price

\* stop 5% and take 5%, a low at or under 95% and a high at or over 105% of the entry
C3_Witness ==
    /\ verdict.kind = "exit" /\ StopBreached /\ TakeBreached
    /\ exit_cfg.stop_loss_pct = Some(5) /\ exit_cfg.take_profit_pct = Some(5)
    /\ ~IsNone(raw_candle.low) /\ ~IsNone(raw_candle.high)
    /\ trades # << >> /\ LastTrade.exit_price * 100 = LastTrade.entry_price * 95

\* C4: the exit rules apply in a fixed priority.  A breached stop or take
\* level always exits with a stop/take reason, whatever the time and signal
\* rules say; "time_exit" is returned exactly on the days where no level is
\* breached and the time exit is due; "signal_exit" exactly on the days where
\* no level is breached, the time exit is not due and the signal triggers;
\* and the position stays open (should_exit false, empty reason) exactly when
\* none of the four applies.
C4_ExitPriority ==
    verdict.kind = "exit" =>
       /\ (StopBreached \/ TakeBreached) =>
             (verdict.should /\ verdict.reason \in {"stop_loss", "take_profit", SameDay})
       /\ verdict.reason = "time_exit" <=>
             (~StopBreached /\ ~TakeBreached /\ TimeDue)
       /\ verdict.reason = "signal_exit" <=>
             (~StopBreached /\ ~TakeBreached /\ ~TimeDue /\ SignalTriggered)
       /\ ~verdict.should <=>
             (~StopBreached /\ ~TakeBreached /\ ~TimeDue /\ ~SignalTriggered)
       /\ ~verdict.should => (verdict.reason = "" /\ IsNone(verdict.fill_price) /\ in_position)

\* a stop-loss exit on a day where the time exit is due and the signal triggers
C4_Witness ==
    /\ verdict.kind = "exit" /\ StopBreached /\ ~TakeBreached
    /\ TimeDue /\ SignalTriggered
    /\ verdict.reason = "stop_loss"

\* C5: with allow_multiple_trades false the ledger never holds more than
\* one trade, and once a trade has closed the walk is over: the trade's exit
\* day is the last day any rule was evaluated on.
C5_StopAfterFirstTrade ==
    ~allow_multiple_trades =>
       /\ Len(trades) <= 1
       /\ trades # << >> => pc # "walk"
       /\ (trades # << >> /\ trades[1].exit_reason # "end_of_data") =>
             /\ verdict.kind = "exit" /\ verdict.should
             /\ trades[1].exit_date = raw_candle.date
             /\ raw_candle.date = 100 + i

\* the walk stopped at the first closed trade with days of the series left
C5_Witness ==
    /\ ~allow_multiple_trades /\ pc = "done" /\ Len(trades) = 1
    /\ i < n - 2

NoExitFields ==
    /\ IsNone(exit_cfg.stop_loss_pct) /\ IsNone(exit_cfg.take_profit_pct)
    /\ IsNone(exit_cfg.max_holding_days) /\ IsNone(exit_cfg.signal)

\* C6: with an exit config that sets no field no exit fires during the
\* walk: every exit evaluation keeps the position, and the ledger holds at
\* most one trade, whose exit_reason is "end_of_data".
C6_EmptyExitNeverFires ==
    NoExitFields =>
       /\ verdict.kind = "exit" => ~verdict.should
       /\ Len(trades) <= 1
       /\ \A k \in 1..Len(trades) : trades[k].exit_reason = "end_of_data"

\* a position held over days that fell under its entry price, closed at end of data
C6_Witness ==
    /\ NoExitFields /\ pc = "done" /\ Len(trades) = 1
    /\ trades[1].holding_days >= 3
    /\ trades[1].pnl_pct < 0

\* C7 as stated: for every configured max_holding_days, a day without a
\* breached level on which the days held have reached max_holding_days exits
\* with (true, "time_exit", no fill price), and the trade is filled at the close.
C7_Original ==
    (/\ verdict.kind = "exit"
     /\ ~IsNone(exit_cfg.max_holding_days)
     /\ ~StopBreached /\ ~TakeBreached
     /\ HeldDays >= Val(exit_cfg.max_holding_days)) =>
       /\ verdict.should /\ verdict.reason = "time_exit" /\ IsNone(verdict.fill_price)
       /\ trades # << >>
       /\ LastTrade.exit_reason = "time_exit"
       /\ LastTrade.exit_price = raw_candle.close

\* C7 (amended): for every configured positive max_holding_days, a day
\* without a breached level on which the days held have reached
\* max_holding_days exits with (true, "time_exit", no fill price), and the
\* trade appended is filled at that day's close.
C7_TimeExitAtClose ==
    (/\ verdict.kind = "exit"
     /\ ~IsNone(exit_cfg.max_holding_days)
     /\ Val(exit_cfg.max_holding_days) > 0
     /\ ~StopBreached /\ ~TakeBreached
     /\ HeldDays >= Val(exit_cfg.max_holding_days)) =>
       /\ verdict.should /\ verdict.reason = "time_exit" /\ IsNone(verdict.fill_price)
       /\ trades # << >>
       /\ LastTrade.exit_reason = "time_exit"
       /\ LastTrade.exit_price = raw_candle.close
       /\ LastTrade.exit_date = raw_candle.date
       /\ LastTrade.holding_days = HeldDays

\* a time exit with stop and take configured and an intrabar low that breaches nothing
C7_Witness ==
    /\ verdict.kind = "exit" /\ verdict.reason = "time_exit"
    /\ ~IsNone(exit_cfg.stop_loss_pct) /\ ~IsNone(exit_cfg.take_profit_pct)
    /\ ~IsNone(raw_candle.low)
    /\ HeldDays = Val(exit_cfg.max_holding_days)
    /\ LastTrade.exit_price = raw_candle.close

\* C8: the walk visits the day indices 1..n-1 in order, with the window
\* being the candles [0..i]; index 0 is never evaluated.  Every trade was
\* entered on a day k in 1..n-1, at that day's close and date, and so is the
\* position that is open.
C8_WalkIndices ==
    /\ i \in 0..(n - 1)
    /\ Len(cleaned_rates) = i + 1
    /\ cur_candle.close = cleaned_rates[i + 1]
    /\ cur_candle.date = 100 + i
    /\ verdict.kind = "none" <=> i = 0
    /\ \A t \in 1..Len(trades) :
          \E k \in 1..(n - 1) :
             /\ k <= i
             /\ trades[t].entry_date = 100 + k
             /\ trades[t].entry_price = cleaned_rates[k + 1]
             /\ trades[t].exit_date = 100 + (k + trades[t].holding_days)
    /\ in_position =>
          /\ entry_index \in 1..(n - 1) /\ entry_index <= i
          /\ entry_date = 100 + entry_index
          /\ entry_price = cleaned_rates[entry_index + 1]

\* a ledger with an entry on day 1 and an entry on the last day
C8_Witness ==
    /\ pc = "done" /\ Len(trades) = 2
    /\ trades[1].entry_date = 100 + 1
    /\ trades[2].entry_date = 100 + (n - 1)
    /\ trades[1].entry_price # trades[2].entry_price

\* C9: the stop test reads the candle's intrabar low and the take test its
\* intrabar high when the candle carries them, and the close otherwise: an
\* exit evaluation returns a stop reason exactly when that low is at or under
\* the stop level, and a take reason exactly when that high is at or over the
\* take level (the day that breaches both carries the same-day reason).
C9_IntrabarChecks ==
    verdict.kind = "exit" =>
       /\ verdict.reason \in {"stop_loss", SameDay} <=> StopBreached
       /\ verdict.reason \in {"take_profit", SameDay} <=> TakeBreached
       /\ verdict.reason = "stop_loss" => verdict.should
       /\ verdict.reason = "take_profit" => verdict.should

\* a stop-loss on a day that closed above the stop level with a low under it
C9_Witness ==
    /\ verdict.kind = "exit" /\ verdict.reason = "stop_loss"
    /\ ~IsNone(raw_candle.low)
    /\ raw_candle.close * 100 > entry_price * (100 - Abs(Val(exit_cfg.stop_loss_pct)))
    /\ Val(raw_candle.low) * 100 <= entry_price * (100 - Abs(Val(exit_cfg.stop_loss_pct)))
    /\ LastTrade.exit_reason = "stop_loss"

\* C10: a trade closed by the stop is filled at
\* entry_price * (1 - |stop_loss_pct| / 100) and has pnl_pct = -|stop_loss_pct|;
\* a trade closed by the take is filled at
\* entry_price * (1 + |take_profit_pct| / 100) and has pnl_pct = +|take_profit_pct|
\* (pnl_pct in 1/10000 percent), whatever the candle's low, high and close
\* and whatever the sign of the configured percentage.
C10_FillAtLevel ==
    \A k \in 1..Len(trades) :
       /\ trades[k].exit_reason \in {"stop_loss", SameDay} =>
             /\ ~IsNone(exit_cfg.stop_loss_pct)
             /\ trades[k].exit_price * 100
                   = trades[k].entry_price * (100 - Abs(Val(exit_cfg.stop_loss_pct)))
             /\ trades[k].pnl_pct = -(Abs(Val(exit_cfg.stop_loss_pct)) * 10000)
       /\ trades[k].exit_reason = "take_profit" =>
             /\ ~IsNone(exit_cfg.take_profit_pct)
             /\ trades[k].exit_price * 100
                   = trades[k].entry_price * (100 + Abs(Val(exit_cfg.take_profit_pct)))
             /\ trades[k].pnl_pct = Abs(Val(exit_cfg.take_profit_pct)) * 10000

\* a negative stop_loss_pct and a low that overshoots the stop level
C10_Witness ==
    /\ verdict.kind = "exit" /\ verdict.reason = "stop_loss"
    /\ Val(exit_cfg.stop_loss_pct) < 0
    /\ EffLow * 100 < entry_price * (100 - Abs(Val(exit_cfg.stop_loss_pct)))
    /\ LastTrade.exit_price > EffLow
    /\ LastTrade.pnl_pct = -100000

(***************************************************************************)
(* Properties of the whole run_backtest (SpecBacktest).                    *)
(***************************************************************************)
\* the elements of the fetched series that carry a date and a numeric close
WithDateAndClose == { k \in 1..Len(series) : ~IsNone(series[k].date) /\ ~IsNone(series[k].close) }

\* ... and those that carry a date and a numeric close or, failing that, a numeric rate
WithDateAndPrice ==
    { k \in 1..Len(series) :
        ~IsNone(series[k].date) /\ (~IsNone(series[k].close) \/ ~IsNone(series[k].rate)) }

\* the returned dict reports a failure: success false, an error, no trades, no summary
IsFailure(r) == ~r.success /\ r.error # "" /\ r.trades = << >> /\ r.summary = << >>

\* what C11 says of a run whose usable candles are the set `usable`
TooFewRule(usable) ==
    /\ (Len(series) < 5 \/ Cardinality(usable) < 5) => (opened = 0 /\ ~in_position)
    /\ result # << >> =>
         /\ (Len(series) < 5 \/ Cardinality(usable) < 5) => IsFailure(result[1])
         /\ Cardinality(usable) >= 5 => result[1].success

RECURSIVE SumOver(_, _, _)
SumOver(s, a, b) == IF b < a THEN 0 ELSE s[b] + SumOver(s, a, b - 1)

\* the entry rule is a moving-average crossover for the given signal
IsCrossoverRule(signal) ==
    /\ entry.type = "moving_average_crossover" /\ entry.signal_type = signal
    /\ verdict.kind = "signal"

ShortP == Val(entry.short_ma_period)
LongP == Val(entry.long_ma_period)

\* the short SMA is above the long SMA on day t of the history (days from 1);
\* both are defined from day LongP on
ShortAbove(t) ==
    SumOver(cleaned_rates, t - ShortP + 1, t) * LongP > SumOver(cleaned_rates, t - LongP + 1, t) * ShortP

\* the golden cross on the last day of the history
GoldenCrossToday ==
    LET t == Len(cleaned_rates)
    IN  t - 1 >= LongP /\ ~ShortAbove(t - 1) /\ ShortAbove(t)

\* C13: for a moving-average crossover with long_period > short_period, the
\* golden cross triggers on the window that ends on day t exactly when the
\* short SMA is at or below the long SMA on day t-1 and above it on day t, and
\* it never triggers on two consecutive days.
C13_GoldenCross ==
    /\ [] ((IsCrossoverRule("golden_cross") /\ LongP > ShortP) => (verdict.should <=> GoldenCrossToday))
    /\ [][ (IsCrossoverRule("golden_cross") /\ LongP > ShortP /\ verdict.should
            /\ cleaned_rates' # cleaned_rates) => ~verdict'.should ]_vars

\* a golden cross reported on a day after the averages were defined
C13_Witness ==
    /\ IsCrossoverRule("golden_cross") /\ LongP > ShortP
    /\ verdict.should /\ pc = "detect" /\ Len(cleaned_rates) >= LongP + 1

\* the entry rule and the alert preference are a moving-average crossover
IsMovingAverage == entry.type = "moving_average_crossover" /\ pref.alert_type = "moving_average"

\* the monitoring detector reported a crossover on the rates it fetched
CrossoverDetected == detection # << >> /\ detection[1].is_crossover

\* C14: a moving-average crossover with long_period <= short_period never
\* triggers, for either signal type, neither in the backtest evaluator nor in
\* the monitoring detector.
C14_InvertedPeriods ==
    (IsMovingAverage /\ LongP <= ShortP) => (~verdict.should /\ ~CrossoverDetected)

\* C14, the backtest evaluator alone
C14_BacktestOnly == (IsMovingAverage /\ LongP <= ShortP) => ~verdict.should

\* the detector reports a crossover although long_period < short_period
C14_Witness == IsMovingAverage /\ LongP < ShortP /\ CrossoverDetected

\* C15: the moving-average crossover never reports a crossover on a series
\* of fewer than long_period + 1 points, neither in the backtest evaluator
\* (on its window) nor in the monitoring detector (on the rates it fetched).
C15_ShortSeries ==
    IsMovingAverage =>
        /\ Len(cleaned_rates) < LongP + 1 => ~verdict.should
        /\ Len(data) < LongP + 1 => ~CrossoverDetected

\* C15, the backtest evaluator alone
C15_BacktestOnly == (IsMovingAverage /\ Len(cleaned_rates) < LongP + 1) => ~verdict.should

\* the detector reports a crossover on exactly long_period points, with
\* long_period > short_period
C15_Witness ==
    IsMovingAverage /\ LongP > ShortP /\ Len(data) = LongP /\ CrossoverDetected

\* the entry rule is a percentage change, evaluated on the current window
IsPercentageChange == entry.type = "percentage_change" /\ verdict.kind = "signal"

ConfiguredPeriod == Val(entry.detection_period)
ConfiguredThreshold == Val(entry.change_threshold)

StrictlyIncreasing(w) == \A k \in 2..Len(w) : w[k - 1] < w[k]

\* the gain of w over its most recent `period` points is at least pct percent
\* (rates are positive)
GainAtLeast(w, period, pct) == (w[Len(w)] - w[Len(w) - period + 1]) * 100 >= pct * w[Len(w) - period + 1]

\* what C16 says of the configurations with a threshold in the set given
MonotoneRule(thresholds) ==
    (IsPercentageChange /\ ConfiguredThreshold \in thresholds /\ Len(cleaned_rates) >= ConfiguredPeriod) =>
        /\ (StrictlyIncreasing(cleaned_rates)
            /\ GainAtLeast(cleaned_rates, ConfiguredPeriod, ConfiguredThreshold)) => verdict.should
        /\ ~GainAtLeast(cleaned_rates, ConfiguredPeriod, ConfiguredThreshold) => ~verdict.should

\* C16: for percentage_change with any configured period and threshold,
\* every strictly increasing window of at least `period` points whose gain
\* over the most recent `period` points is at least the threshold triggers,
\* and no window whose gain over those points is below the threshold
\* triggers.
C16_MonotoneGain == MonotoneRule({0, 1, 20})

\* C16 for the thresholds other than 0
C16_NonZeroThreshold == MonotoneRule({1, 20})

\* a rising window that reaches a configured threshold of 0 and does not trigger
C16_Witness ==
    /\ IsPercentageChange /\ ConfiguredThreshold = 0 /\ ConfiguredPeriod >= 2
    /\ Len(cleaned_rates) >= ConfiguredPeriod /\ StrictlyIncreasing(cleaned_rates)
    /\ GainAtLeast(cleaned_rates, ConfiguredPeriod, 0)
    /\ ~verdict.should

\* each of the last min(5, Len(w)) points of w is at least 99.8% of its predecessor
NoPullback(w) ==
    \A k \in 2..Len(w) : k > Len(w) - 4 => w[k] * 1000 >= w[k - 1] * 998

\* the last `period` points of w, for Len(w) >= period
Recent(w, period) == [k \in 1..period |-> w[Len(w) - period + k]]

\* what C17 says of the backtest evaluator, for the thresholds in the set given
TriggerRule(thresholds) ==
    (IsPercentageChange /\ ConfiguredThreshold \in thresholds
     /\ Len(cleaned_rates) >= ConfiguredPeriod /\ Len(cleaned_rates) >= 2) =>
        (verdict.should <=>
            /\ GainAtLeast(cleaned_rates, ConfiguredPeriod, ConfiguredThreshold)
            /\ (~entry.enable_trend_consistency
                \/ NoPullback(Recent(cleaned_rates, ConfiguredPeriod))))

\* what C17 says of detect_trend, applied to the rates it fetched
DetectTrendRule ==
    (pref.alert_type = "percentage_change" /\ detection # << >>) =>
        (detection[1].is_trending <=>
            /\ GainAtLeast(data, Len(data), Val(pref.custom_threshold))
            /\ (~pref.enable_trend_consistency \/ NoPullback(data)))

\* C17: percentage_change triggers if and only if the gain reaches the
\* threshold and either the consistency rule holds or consistency is not
\* required (so that, without it, a window with enough gain triggers even
\* after a sharp pullback), in the backtest evaluator and in detect_trend.
C17_TriggerRule == TriggerRule({0, 1, 20}) /\ DetectTrendRule

\* C17 for the backtest evaluator and the thresholds other than 0
C17_BacktestNonZero == TriggerRule({1, 20})

\* detect_trend refuses a gain that reaches a non-zero threshold after a
\* sharp pullback although the preference does not require consistency
C17_Witness ==
    /\ pref.alert_type = "percentage_change" /\ detection # << >>
    /\ ~pref.enable_trend_consistency /\ Val(pref.custom_threshold) # 0
    /\ GainAtLeast(data, Len(data), Val(pref.custom_threshold))
    /\ ~NoPullback(data)
    /\ ~detection[1].is_trending

(***************************************************************************)
(* Properties of the long-term uptrend (SpecUptrend).                      *)
(***************************************************************************)
\* the entry rule is a long-term uptrend, evaluated on the window
IsUptrend == entry.type = "long_term_uptrend" /\ verdict.kind = "signal"

\* the points the rule asks for: max(period, long_ma_period + 2, 60)
PointsNeeded ==
    LET a == ConfiguredPeriod
        b == LongP + 2
    IN  IF a >= b /\ a >= 60 THEN a ELSE IF b >= 60 THEN b ELSE 60

\* first confirmation: the gain over the period reaches the threshold, and
\* the consistency rule holds where it is required
GainConfirmed ==
    /\ GainAtLeast(cleaned_rates, ConfiguredPeriod, ConfiguredThreshold)
    /\ (~entry.enable_trend_consistency \/ NoPullback(Recent(cleaned_rates, ConfiguredPeriod)))

\* second confirmation: the short SMA is above the long SMA, and the long
\* SMA is not below its value of the day before
AveragesConfirmed ==
    LET t == Len(cleaned_rates)
    IN  /\ ShortAbove(t)
        /\ SumOver(cleaned_rates, t - LongP + 1, t) >= SumOver(cleaned_rates, t - LongP, t - 1)

\* the least-squares line through the points (k, w[k]), from the deviations
\* 2k - (m + 1) of the index (doubled) and m * w[k] - sum(w) of the rate
\* (m-fold): its slope is positive / its r2 = sxy^2 / (sxx * syy) is >= 1/4
Dev(w) ==
    LET m == Len(w)
        total == SumOver(w, 1, m)
        dx == [k \in 1..m |-> 2 * k - (m + 1)]
        dy == [k \in 1..m |-> m * w[k] - total]
    IN  [sxy |-> SumOver([k \in 1..m |-> dx[k] * dy[k]], 1, m),
         sxx |-> SumOver([k \in 1..m |-> dx[k] * dx[k]], 1, m),
         syy |-> SumOver([k \in 1..m |-> dy[k] * dy[k]], 1, m)]

SlopePositive(w) == Dev(w).sxy > 0

\* 4 * sxy^2 >= sxx * syy, for a positive slope
FitAtLeastQuarter(w) == FracGE(2 * Dev(w).sxy, Dev(w).sxx, Dev(w).syy, 2 * Dev(w).sxy)

\* third confirmation
LineConfirmed ==
    LET w == Recent(cleaned_rates, ConfiguredPeriod)
    IN  SlopePositive(w) /\ FitAtLeastQuarter(w)

\* C18: the backtest long_term_uptrend triggers only if the window has at
\* least max(period, long_ma_period + 2, 60) points and the three
\* confirmations hold (gain with consistency, short SMA above a long SMA that
\* is not falling, regression slope > 0 with r2 >= 0.25); so it does not
\* trigger when the gain and consistency pass but r2 < 0.25.
C18_ThreeConfirmations ==
    (IsUptrend /\ verdict.should) =>
        /\ Len(cleaned_rates) >= PointsNeeded
        /\ GainConfirmed /\ AveragesConfirmed /\ LineConfirmed

\* a long enough window whose gain, consistency, averages and slope pass,
\* whose r2 is below 0.25, and which did not trigger
C18_Witness ==
    /\ IsUptrend /\ LongP > ShortP /\ entry.enable_trend_consistency
    /\ Len(cleaned_rates) >= PointsNeeded
    /\ GainConfirmed /\ AveragesConfirmed
    /\ SlopePositive(Recent(cleaned_rates, ConfiguredPeriod))
    /\ ~FitAtLeastQuarter(Recent(cleaned_rates, ConfiguredPeriod))
    /\ ~verdict.should

\* a window on which the rule triggers
C18_Triggered == IsUptrend /\ verdict.should

\* detect_long_term_uptrend reported an uptrend on the rates it fetched
UptrendDetected == detection # << >> /\ detection[1].is_trending

\* C19: a long_term_uptrend whose long_ma_period is at or below its
\* short_ma_period never triggers, neither in the backtest evaluator nor in
\* detect_long_term_uptrend.
C19_InvertedAverages ==
    (entry.type = "long_term_uptrend" /\ LongP <= ShortP) => (~verdict.should /\ ~UptrendDetected)

\* C19, the monitoring detector alone
C19_DetectorOnly == (entry.type = "long_term_uptrend" /\ LongP <= ShortP) => ~UptrendDetected

\* the backtest evaluator triggers although long_ma_period < short_ma_period
C19_Witness == IsUptrend /\ LongP < ShortP /\ verdict.should

(***************************************************************************)
(* Properties of the price-level condition in the walk (Spec).             *)
(***************************************************************************)
\* the crossing of C20 for the price_level condition c on the current day:
\* the previous close on one side of the bound, and the close or the
\* candle's intrabar extreme at or beyond it
Crossing(c) ==
    LET prev == cleaned_rates[Len(cleaned_rates) - 1]
        cur == cleaned_rates[Len(cleaned_rates)]
    IN  IF c.trigger_type = "crosses_above"
        THEN /\ ~IsNone(c.price_high)
             /\ prev < Val(c.price_high)
             /\ (cur >= Val(c.price_high) \/ EffHigh >= Val(c.price_high))
        ELSE /\ c.trigger_type = "crosses_below"
             /\ ~IsNone(c.price_low)
             /\ prev > Val(c.price_low)
             /\ (cur <= Val(c.price_low) \/ EffLow <= Val(c.price_low))

\* the day's evaluation was of a price_level entry rule
PriceLevelEntryDay == verdict.kind = "entry" /\ entry.type = "price_level"

\* the day's evaluation reached a price_level exit signal: no stop, take or
\* time exit came first
PriceLevelExitDay ==
    /\ verdict.kind = "exit" /\ ~IsNone(exit_cfg.signal)
    /\ Val(exit_cfg.signal).type = "price_level"
    /\ ~StopBreached /\ ~TakeBreached /\ ~TimeDue

\* C20: a price_level condition with trigger crosses_above triggers exactly
\* when the high bound is set, the previous close is below it, and the
\* current close or the current candle's intrabar high is at or above it
\* (crosses_below is the mirror on the low bound), as the entry rule and as
\* the exit signal of the exit config.
C20_PriceLevelCross ==
    /\ PriceLevelEntryDay => (verdict.should <=> Crossing(entry))
    /\ PriceLevelExitDay => (verdict.should <=> Crossing(Val(exit_cfg.signal)))

\* C20, the entry rule alone
C20_EntryOnly == PriceLevelEntryDay => (verdict.should <=> Crossing(entry))

\* an exit signal that did not trigger on a day whose close stayed above
\* the low bound while the candle's low went through it
C20_Witness ==
    /\ PriceLevelExitDay /\ Crossing(Val(exit_cfg.signal))
    /\ ~IsNone(raw_candle.low) /\ raw_candle.close > Val(Val(exit_cfg.signal).price_low)
    /\ ~verdict.should

\* an entry rule that triggered on the candle's intrabar high alone
C20_EntryOnIntrabarHigh ==
    /\ PriceLevelEntryDay /\ verdict.should
    /\ raw_candle.close < Val(entry.price_high)

(***************************************************************************)
(* Properties of the historical extremes (SpecSignals).                    *)
(***************************************************************************)
\* the largest and the smallest of the fetched rates
Highest == CHOOSE x \in { data[k] : k \in 1..Len(data) } : \A k \in 1..Len(data) : data[k] <= x
Lowest == CHOOSE x \in { data[k] : k \in 1..Len(data) } : \A k \in 1..Len(data) : x <= data[k]

Latest == data[Len(data)]

\* |a - b| < b * 0.001
WithinTenth(a, b) == (a - b) * 1000 < b /\ (b - a) * 1000 < b

\* C21: on every fetched series of at least 2 points detect_historical_high
\* produces a verdict, triggered exactly when the latest rate is within 0.1%
\* of the series maximum, and detect_historical_low the mirror with the
\* minimum; a flat series (max = min) still gets its verdict.
C21_HistoricalExtremes ==
    /\ (pref.alert_type = "historical_high" /\ Len(data) >= 2) =>
          (detection # << >> /\ (detection[1].is_high <=> WithinTenth(Latest, Highest)))
    /\ (pref.alert_type = "historical_low" /\ Len(data) >= 2) =>
          (detection # << >> /\ (detection[1].is_low <=> WithinTenth(Latest, Lowest)))

\* C21 for the series that are not flat
C21_NotFlat ==
    /\ (pref.alert_type = "historical_high" /\ Len(data) >= 2 /\ Highest # Lowest) =>
          (detection # << >> /\ (detection[1].is_high <=> WithinTenth(Latest, Highest)))
    /\ (pref.alert_type = "historical_low" /\ Len(data) >= 2 /\ Highest # Lowest) =>
          (detection # << >> /\ (detection[1].is_low <=> WithinTenth(Latest, Lowest)))

\* a flat series of at least 2 points, for which no verdict came back
C21_Witness ==
    /\ pref.alert_type = "historical_high" /\ Len(data) >= 2 /\ Highest = Lowest
    /\ detection = << >>

(***************************************************************************)
(* Properties of the maximum drawdown (SpecDrawdown)                       *)
(***************************************************************************)
\* the largest equity among the first k points of the curve
RunningPeak(k) ==
    CHOOSE v \in { equity[j] : j \in 1..k } :
        \A j \in 1..k : FracGE(v[1], v[2], equity[j][1], equity[j][2])

\* (running_peak - value) / running_peak * 100 at point k
DrawdownAt(k) ==
    IF RunningPeak(k)[1] = 0 THEN << 0, 1 >>
    ELSE FracMul(FracDiv(FracSub(RunningPeak(k), equity[k]), RunningPeak(k)), << 100, 1 >>)

NeverFalls == \A k \in 1..Len(equity) : equity[k] = RunningPeak(k)

ExampleCurve == << << 10000, 1 >>, << 11000, 1 >>, << 9000, 1 >>, << 9900, 1 >> >>

\* C22: what _max_drawdown returns for an equity curve is the largest, over
\* the points of the curve, of (running peak - value) / running peak * 100,
\* the running peak being the largest equity up to that point; it is 0 for
\* a curve that never falls below its running peak, and 2000 / 11000 * 100
\* for 10000, 11000, 9000, 9900.
C22_MaxDrawdown ==
    (pc = "returned" /\ max_dd # None) =>
        /\ \E k \in 1..Len(equity) : Val(max_dd) = DrawdownAt(k)
        /\ \A k \in 1..Len(equity) :
               FracGE(Val(max_dd)[1], Val(max_dd)[2], DrawdownAt(k)[1], DrawdownAt(k)[2])
        /\ NeverFalls => Val(max_dd) = << 0, 1 >>
        /\ equity = ExampleCurve => Val(max_dd) = Frac(2000 * 100, 11000)

C22_Witness ==
    pc = "returned" /\ equity = ExampleCurve /\ max_dd = Some(<< 200, 11 >>)

(***************************************************************************)
(* Properties of the monitoring loop (SpecMonitor)                         *)
(***************************************************************************)
\* thread t takes the step that reads the preference and the cooldown of pair p
ReadsPair(t, p) ==
    /\ loops[t].pc = "pair" /\ CurrencyPairs[loops[t].k] = p
    /\ loops'[t] # loops[t]

\* the step leaves thread t about to run the detector of the pair
GoesOnToDetect(t) == loops'[t].pc = "detect"

\* an alert was recorded for p less than the cooldown ago
RecordedWithinCooldown(p) == emails[p] # None /\ now < Val(emails[p]).time + Cooldown

\* the step saves a row for p in the alerts table
SavesAlert(p) == alerts'[p] # alerts[p] /\ alerts'[p] # None

\* the step calls send_email_alert for p
SendsEmail(p) == emails'[p] # emails[p]

\* the step leaves the tables of p as they are
NothingDone(p) ==
    /\ alerts'[p] = alerts[p] /\ emails'[p] = emails[p]
    /\ monitoring_state'[p] = monitoring_state[p]

SkippedWithinCooldown ==
    \A t \in Threads, p \in Pairs :
        ReadsPair(t, p) /\ RecordedWithinCooldown(p) => ~GoesOnToDetect(t) /\ NothingDone(p)

AlertsCooldownApart ==
    \A p \in Pairs :
        SavesAlert(p) /\ alerts[p] # None =>
            Val(alerts'[p]).time - Val(alerts[p]).time >= Cooldown

\* C23: once an alert has been recorded for a pair at time t, every check
\* cycle before t + 3600 skips the pair (no detector, no email, no alert
\* saved), and an alert saved for a pair that already has one in the table
\* is at least the cooldown later than it.
C23_Cooldown == [][SkippedWithinCooldown /\ AlertsCooldownApart]_vars

\* a thread is about to run the detector of a pair whose last alert is
\* less than the cooldown old and still in the table
C23_Witness ==
    \E t \in Threads, p \in Pairs :
        /\ loops[t].pc = "detect" /\ CurrencyPairs[loops[t].k] = p
        /\ alerts[p] # None /\ now - Val(alerts[p]).time < Cooldown
        /\ enabled[p]

\* what holds of the cooldown in every interleaving: a pair whose stored
\* timestamp is less than the cooldown old when the loop reads it is skipped
C23_StoredTimestamp ==
    [][\A t \in Threads, p \in Pairs :
          ReadsPair(t, p) /\ CoolingDown(monitoring_state[p], now)
              => ~GoesOnToDetect(t) /\ NothingDone(p)]_vars

\* thread t takes a step of the iteration of pair p
StepsOnPair(t, p) ==
    /\ loops[t].pc \in { "pair", "detect" } /\ CurrencyPairs[loops[t].k] = p
    /\ loops'[t] # loops[t]

\* thread t starts a check cycle
StartsCycle(t) == loops[t].pc = "while" /\ loops'[t].pc \in { "pair", "detect" }

\* C24: a step the loop takes on a pair whose stored preference is disabled
\* does not go on to the detector, sends no email, saves no alert and leaves
\* the cooldown timestamp as it is; and no check cycle is started while the
\* monitoring_enabled setting is not 'true'.
C24_DisabledNotEvaluated ==
    [][/\ \A t \in Threads, p \in Pairs :
              StepsOnPair(t, p) /\ ~enabled[p] => ~GoesOnToDetect(t) /\ NothingDone(p)
       /\ \A t \in Threads :
              monitoring_enabled # "true" =>
                  /\ ~StartsCycle(t)
                  /\ (loops[t].pc = "while" /\ loops'[t] # loops[t]) =>
                         \A p \in Pairs : NothingDone(p)]_vars

\* a thread has passed the first pair, which is disabled and has nothing
\* recorded, and is at the second
C24_Witness ==
    \E t \in Threads :
        /\ loops[t] = [pc |-> "pair", k |-> 2]
        /\ ~enabled[CurrencyPairs[1]]
        /\ emails[CurrencyPairs[1]] = None /\ monitoring_state[CurrencyPairs[1]] = None
        /\ monitoring_enabled = "true"

\* the threads that are in a check cycle
InCycle == { t \in Threads : loops[t].pc \in { "pair", "detect" } }

\* C28: whatever the interleaving of start_monitoring and stop_monitoring
\* calls, at most one monitoring_loop thread is in a check cycle.
C28_SingleLoop == Cardinality(InCycle) <= 1

\* two threads are in a check cycle at once, on different pairs
C28_Witness ==
    /\ \A t \in Threads : loops[t].pc \in { "pair", "detect" }
    /\ \E t, u \in Threads : loops[t].k # loops[u].k

\* thread t takes the step that runs the detector of pair p
DetectsPair(t, p) ==
    /\ loops[t].pc = "detect" /\ CurrencyPairs[loops[t].k] = p
    /\ loops'[t] # loops[t]

SavedWithOutcome ==
    \A t \in Threads, p \in Pairs :
        DetectsPair(t, p) /\ SendsEmail(p) =>
            /\ alerts'[p] = emails'[p]
            /\ monitoring_state'[p] = Some(now)

FailedEmailNotRetried ==
    \A p \in Pairs :
        (SendsEmail(p) /\ emails[p] # None /\ ~Val(emails[p]).email_sent) =>
            now - Val(emails[p]).time >= Cooldown

\* C29: when a condition triggers, the alert is saved with the outcome of
\* the email and the cooldown timestamp of the pair is set, whether or not
\* the email was sent; after a failed email no email is sent for the pair
\* until the cooldown has expired.
C29_FailedEmail == [][SavedWithOutcome /\ FailedEmailNotRetried]_vars

\* a thread is about to run the detector of a pair whose email failed less
\* than the cooldown ago
C29_Witness ==
    \E t \in Threads, p \in Pairs :
        /\ loops[t].pc = "detect" /\ CurrencyPairs[loops[t].k] = p /\ enabled[p]
        /\ emails[p] # None /\ ~Val(emails[p]).email_sent
        /\ now - Val(emails[p]).time < Cooldown

\* what holds in every interleaving: the alert is saved and the timestamp set
\* whatever the outcome of the email
C29_SavedWithOutcome == [][SavedWithOutcome]_vars

(***************************************************************************)
(* Properties of the inputs of run_backtest (SpecBacktest)                 *)
(***************************************************************************)
Returned == pc = "returned" /\ result # None /\ Val(result).success

\* C25: run_backtest leaves the entry and exit configs it was given as they
\* are: no step changes them, the exit config never holds the current
\* candle (the '__cur_candle' key), and the 'exit' and 'entry' values of the
\* result are the configs passed in.
C25_InputsUntouched ==
    /\ [][exit_cfg' = exit_cfg /\ entry' = entry]_vars
    /\ [](exit_cfg.cur_candle = None)
    /\ [](Returned => Val(result).exit = exit_cfg /\ Val(result).entry = entry)

\* a run that evaluated the exit on some day with the day's candle and returned
C25_Witness ==
    /\ Returned
    /\ \E k \in 1..Len(trades) : trades[k].exit_reason = "stop_loss"
    /\ Val(result).exit = exit_cfg /\ exit_cfg.cur_candle = None

(***************************************************************************)
(* Properties of the days of the walk (Spec)                               *)
(***************************************************************************)
\* the index of the day a date belongs to (day k has the date 100 + k)
IndexOf(date) == date - 100

\* the step is a day of the walk
WalkDay == i' = i + 1

\* a day that began flat evaluates the entry only and closes nothing; a day
\* that began in a position evaluates the exit only, and the day that
\* closes the position leaves the walk flat
OneEvaluationPerDay ==
    WalkDay =>
        /\ verdict'.kind = IF in_position THEN "exit" ELSE "entry"
        /\ ~in_position => trades' = trades
        /\ in_position => entry_index' = entry_index /\ opened' = opened
        /\ Len(trades') > Len(trades) => in_position /\ ~in_position'

ClosedByExit(t) == t.exit_reason # "end_of_data"

LedgerDays ==
    /\ \A k \in 1..Len(trades) :
           /\ trades[k].holding_days = IndexOf(trades[k].exit_date) - IndexOf(trades[k].entry_date)
           /\ ClosedByExit(trades[k]) => trades[k].holding_days >= 1
           /\ trades[k].holding_days = 0 =>
                  /\ trades[k].exit_reason = "end_of_data"
                  /\ IndexOf(trades[k].entry_date) = n - 1
    /\ \A k \in 1..(Len(trades) - 1) :
           IndexOf(trades[k + 1].entry_date) > IndexOf(trades[k].exit_date)

\* C26: each simulated day performs one entry evaluation or one exit
\* evaluation, never both.  So a trade closed by an exit verdict is held at
\* least one day, a later trade enters on a day after the day the previous
\* trade exited, and a trade held 0 days is an end_of_data trade entered on
\* the last day.
C26_OneEvaluationPerDay == [][OneEvaluationPerDay]_vars /\ []LedgerDays

\* a trade held exactly one day, the next one entered on the very next day,
\* which is the last, and closed there as end_of_data
C26_Witness ==
    /\ pc = "done" /\ Len(trades) = 2
    /\ ClosedByExit(trades[1]) /\ trades[1].holding_days = 1
    /\ trades[2].entry_date = trades[1].exit_date + 1
    /\ trades[2].exit_reason = "end_of_data" /\ trades[2].holding_days = 0

(***************************************************************************)
(* Properties of the holding period (Spec)                                 *)
(***************************************************************************)
HoldingLimit == Val(exit_cfg.max_holding_days)

\* C27: with max_holding_days = N >= 1, no trade closed during the walk is
\* held longer than N days, and every trade whose exit_reason is
\* "time_exit" is held exactly N days.
C27_HoldingLimit ==
    (~IsNone(exit_cfg.max_holding_days) /\ HoldingLimit >= 1) =>
        \A k \in 1..Len(trades) :
            /\ ClosedByExit(trades[k]) => trades[k].holding_days <= HoldingLimit
            /\ trades[k].exit_reason = "time_exit" => trades[k].holding_days = HoldingLimit

\* a ledger with a trade closed by a stop before the limit and a later one
\* closed by the time exit
C27_Witness ==
    /\ ~IsNone(exit_cfg.max_holding_days) /\ HoldingLimit >= 1
    /\ \E k \in 1..Len(trades) :
           trades[k].exit_reason = "time_exit" /\ trades[k].holding_days = HoldingLimit
    /\ \E k \in 1..Len(trades) :
           ClosedByExit(trades[k]) /\ trades[k].holding_days < HoldingLimit

(***************************************************************************)
(* Properties of an entry type the evaluator does not handle               *)
(* (SpecBacktest)                                                          *)
(***************************************************************************)
Unhandled == entry.type \in UnhandledTypes

EnoughUsable == Len(CleanSeries(series)) >= MinUsable

\* the figure, kept in hundredths, is the amount
InHundredths(figure, amount) == figure * amount[2] = amount[1] * 100

====
